---------------------------- MODULE Spec2Model ----------------------------
(***************************************************************************)
(* A model of op8d_lexemizer (Rust 2018 lexemizer): the seven detect_*()   *)
(* functions as operators over byte sequences, and lexemize() as a state   *)
(* machine over its cursor `chr`, its `unident_chr` marker and its         *)
(* `lexemes` vector.                                                        *)
(*                                                                         *)
(* A text is a sequence of bytes (0..255) that is valid UTF-8, as a Rust   *)
(* &str is.  Offsets are zero based as in the source, so the byte at       *)
(* offset i of text o is o[i+1].  A slice that Rust would refuse (an end   *)
(* before the start, an end past the text, an end or start inside a        *)
(* multi-byte character) makes the operation return the kind "Panic".      *)
(***************************************************************************)
EXTENDS Integers, Sequences, FiniteSets, TLC

(***************************************************************************)
(* Characters.  Ch maps a one-character string to its ASCII byte, so that  *)
(* the model can write the source's character literals.                    *)
(***************************************************************************)
Ch ==
    "\t" :> 9 @@ "\n" :> 10 @@ "\r" :> 13 @@ " " :> 32 @@ "!" :> 33 @@
    "\"" :> 34 @@ "#" :> 35 @@ "$" :> 36 @@ "%" :> 37 @@ "&" :> 38 @@
    "'" :> 39 @@ "(" :> 40 @@ ")" :> 41 @@ "*" :> 42 @@ "+" :> 43 @@
    "," :> 44 @@ "-" :> 45 @@ "." :> 46 @@ "/" :> 47 @@ "0" :> 48 @@
    "1" :> 49 @@ "2" :> 50 @@ "3" :> 51 @@ "4" :> 52 @@ "5" :> 53 @@
    "6" :> 54 @@ "7" :> 55 @@ "8" :> 56 @@ "9" :> 57 @@ ":" :> 58 @@
    ";" :> 59 @@ "<" :> 60 @@ "=" :> 61 @@ ">" :> 62 @@ "?" :> 63 @@
    "@" :> 64 @@ "A" :> 65 @@ "B" :> 66 @@ "C" :> 67 @@ "D" :> 68 @@
    "E" :> 69 @@ "F" :> 70 @@ "G" :> 71 @@ "H" :> 72 @@ "I" :> 73 @@
    "J" :> 74 @@ "K" :> 75 @@ "L" :> 76 @@ "M" :> 77 @@ "N" :> 78 @@
    "O" :> 79 @@ "P" :> 80 @@ "Q" :> 81 @@ "R" :> 82 @@ "S" :> 83 @@
    "T" :> 84 @@ "U" :> 85 @@ "V" :> 86 @@ "W" :> 87 @@ "X" :> 88 @@
    "Y" :> 89 @@ "Z" :> 90 @@ "[" :> 91 @@ "\\" :> 92 @@ "]" :> 93 @@
    "^" :> 94 @@ "_" :> 95 @@ "a" :> 97 @@ "b" :> 98 @@
    "c" :> 99 @@ "d" :> 100 @@ "e" :> 101 @@ "f" :> 102 @@ "g" :> 103 @@
    "h" :> 104 @@ "i" :> 105 @@ "j" :> 106 @@ "k" :> 107 @@ "l" :> 108 @@
    "m" :> 109 @@ "n" :> 110 @@ "o" :> 111 @@ "p" :> 112 @@ "q" :> 113 @@
    "r" :> 114 @@ "s" :> 115 @@ "t" :> 116 @@ "u" :> 117 @@ "v" :> 118 @@
    "w" :> 119 @@ "x" :> 120 @@ "y" :> 121 @@ "z" :> 122 @@ "{" :> 123 @@
    "|" :> 124 @@ "}" :> 125 @@ "~" :> 126

\* The bytes of a string literal, given as the sequence of its characters.
S(cs) == [k \in DOMAIN cs |-> Ch[cs[k]]]

\* char::is_alphabetic, char::is_alphanumeric and char::is_ascii_hexdigit on
\* an ASCII byte (the detectors only ever apply them to get_aot()'s result).
IsDigit(c) == c >= Ch["0"] /\ c <= Ch["9"]
IsAlphabetic(c) == (c >= Ch["A"] /\ c <= Ch["Z"]) \/ (c >= Ch["a"] /\ c <= Ch["z"])
IsAlphanumeric(c) == IsAlphabetic(c) \/ IsDigit(c)
IsAsciiHexdigit(c) ==
    IsDigit(c) \/ (c >= Ch["A"] /\ c <= Ch["F"]) \/ (c >= Ch["a"] /\ c <= Ch["f"])

(***************************************************************************)
(* Cursor / byte access.                                                   *)
(***************************************************************************)
\* str::is_char_boundary: 0 and len are boundaries, an offset past len is
\* not, and otherwise the byte must not be a UTF-8 continuation byte.
IsCharBoundary(o, i) ==
    IF i = 0 THEN TRUE
    ELSE IF i >= Len(o) THEN i = Len(o)
    ELSE o[i + 1] < 128 \/ o[i + 1] >= 192

\* Whether &orig[a..b] is a slice Rust accepts (it panics otherwise).
SliceOk(o, a, b) == a <= b /\ b <= Len(o) /\ IsCharBoundary(o, a) /\ IsCharBoundary(o, b)

\* The bytes of &orig[a..b].
Slice(o, a, b) == SubSeq(o, a + 1, b)

\* orig.get(a..b).unwrap_or("~")
GetOrTilde(o, a, b) == IF SliceOk(o, a, b) THEN Slice(o, a, b) ELSE <<Ch["~"]>>

\* get_aot(): the ASCII character at offset c, or tilde when c is out of
\* range, inside a multi-byte character or at the start of one.
GetAot(o, c) == GetOrTilde(o, c, c + 1)[1]

\* `while !orig.is_char_boundary(j) { j += 1 }`: the first boundary at or
\* after j.  Past the end of the text no offset is a boundary and the loop
\* does not end: the result is -1.
RECURSIVE SkipToBoundary(_, _)
SkipToBoundary(o, j) ==
    IF j > Len(o) THEN -1
    ELSE IF IsCharBoundary(o, j) THEN j
    ELSE SkipToBoundary(o, j + 1)

\* A detector's result: (LexemeKind, usize).
Result(kind, pos) == [kind |-> kind, pos |-> pos]
UNDETECTED == Result("Undetected", 0)
\* Abnormal ends of a detector: a slice panic, or a loop that never ends.
PANICKED == Result("Panic", 0)
HUNG == Result("Hang", 0)

(***************************************************************************)
(* detect_whitespace                                                       *)
(***************************************************************************)
AsciiWhitespace == {Ch[" "], Ch["\n"], Ch["\t"], Ch["\r"], 11, 12}
\* Mutant: the two directional marks are no whitespace.
NonAsciiWhitespace_NoMarks ==
    { <<194, 133>>, <<226, 128, 168>>, <<226, 128, 169>> }

NonAsciiWhitespace ==
    { <<194, 133>>,        \* U+0085 Next Line
      <<226, 128, 142>>,   \* U+200E Left-To-Right Mark
      <<226, 128, 143>>,   \* U+200F Right-To-Left Mark
      <<226, 128, 168>>,   \* U+2028 Line Separator
      <<226, 128, 169>> }  \* U+2029 Paragraph Separator

\* Mutant: the `i == chr` test at the end of detect_whitespace() is missing,
\* so that an empty run counts as a match.
WhitespaceEnd_Empty(chr, i) == Result("WhitespaceTrimmable", i)

WhitespaceEnd(chr, i) ==
    IF i = chr THEN UNDETECTED ELSE Result("WhitespaceTrimmable", i)

RECURSIVE WhitespaceLoop(_, _, _)
WhitespaceLoop(o, chr, i) ==
    IF ~(i < Len(o)) THEN WhitespaceEnd(chr, i)
    ELSE LET c == GetAot(o, i) IN
         IF c \in AsciiWhitespace THEN WhitespaceLoop(o, chr, i + 1)
         ELSE IF c # Ch["~"] THEN WhitespaceEnd(chr, i)
         ELSE IF i >= Len(o) - 1 THEN WhitespaceEnd(chr, i)
         ELSE LET j == SkipToBoundary(o, i + 1) IN
              IF j < 0 THEN HUNG
              ELSE IF ~SliceOk(o, i, j) THEN PANICKED
              ELSE IF Slice(o, i, j) = <<Ch["~"]>> THEN WhitespaceEnd(chr, i)
              ELSE IF Slice(o, i, j) \in NonAsciiWhitespace
                   THEN WhitespaceLoop(o, chr, j)
              ELSE WhitespaceEnd(chr, i)

\* Mutant: the bail-out on an offset that is out of range or not on a
\* character boundary is missing.
detect_whitespace_Unguarded(o, chr) == WhitespaceLoop(o, chr, chr)

detect_whitespace(o, chr) ==
    IF chr >= Len(o) \/ ~IsCharBoundary(o, chr) THEN UNDETECTED
    ELSE WhitespaceLoop(o, chr, chr)

(***************************************************************************)
(* detect_comment                                                          *)
(***************************************************************************)
RECURSIVE InlineLoop(_, _)
InlineLoop(o, i) ==
    IF ~(i < Len(o) - 1) THEN Result("CommentInline", Len(o))
    ELSE LET j == SkipToBoundary(o, i + 1) IN
         IF j < 0 THEN HUNG
         ELSE IF ~SliceOk(o, i, j) THEN PANICKED
         ELSE IF Slice(o, i, j) = <<Ch["\n"]>> THEN Result("CommentInline", i)
         ELSE InlineLoop(o, j)

detect_inline_comment(o, chr) == InlineLoop(o, chr + 2)

RECURSIVE MultilineLoop(_, _, _)
\* Mutant: after a `*/` that closes an inner comment, the `/` is not skipped.
MultilineLoop_NoSkip(o, i, depth) ==
    IF ~(i < Len(o)) THEN UNDETECTED
    ELSE LET j == SkipToBoundary(o, i + 1) IN
         IF j < 0 THEN HUNG
         ELSE IF ~SliceOk(o, i, j) THEN PANICKED
         ELSE LET c0 == Slice(o, i, j)
                  c1 == GetAot(o, j)
              IN IF c0 = <<Ch["*"]>> /\ c1 = Ch["/"]
                 THEN IF depth = 0 THEN Result("CommentMultiline", i + 2)
                      ELSE MultilineLoop(o, j, depth - 1)
                 ELSE IF c0 = <<Ch["/"]>> /\ c1 = Ch["*"]
                 THEN MultilineLoop(o, j + 1, depth + 1)
                 ELSE MultilineLoop(o, j, depth)

MultilineLoop(o, i, depth) ==
    IF ~(i < Len(o)) THEN UNDETECTED
    ELSE LET j == SkipToBoundary(o, i + 1) IN
         IF j < 0 THEN HUNG
         ELSE IF ~SliceOk(o, i, j) THEN PANICKED
         ELSE LET c0 == Slice(o, i, j)
                  c1 == GetAot(o, j)
              IN IF c0 = <<Ch["*"]>> /\ c1 = Ch["/"]
                 THEN IF depth = 0 THEN Result("CommentMultiline", i + 2)
                      ELSE MultilineLoop(o, j + 1, depth - 1)
                 ELSE IF c0 = <<Ch["/"]>> /\ c1 = Ch["*"]
                 THEN MultilineLoop(o, j + 1, depth + 1)
                 ELSE MultilineLoop(o, j, depth)

detect_multiline_comment(o, chr) == MultilineLoop(o, chr + 2, 0)

\* The values `depth` takes in the loop of detect_multiline_comment(), one
\* per iteration.  It is a usize: the code decrements it only when it is
\* not 0.
RECURSIVE MultilineDepths(_, _, _)
MultilineDepths(o, i, depth) ==
    IF ~(i < Len(o)) THEN {depth}
    ELSE LET j == SkipToBoundary(o, i + 1) IN
         IF j < 0 \/ ~SliceOk(o, i, j) THEN {depth}
         ELSE LET c0 == Slice(o, i, j)
                  c1 == GetAot(o, j)
              IN {depth} \cup
                 IF c0 = <<Ch["*"]>> /\ c1 = Ch["/"]
                 THEN IF depth = 0 THEN {}
                      ELSE MultilineDepths(o, j + 1, depth - 1)
                 ELSE IF c0 = <<Ch["/"]>> /\ c1 = Ch["*"]
                 THEN MultilineDepths(o, j + 1, depth + 1)
                 ELSE MultilineDepths(o, j, depth)

detect_comment(o, chr) ==
    IF Len(o) < chr + 2 THEN UNDETECTED
    ELSE IF GetAot(o, chr) # Ch["/"] THEN UNDETECTED
    ELSE IF GetAot(o, chr + 1) = Ch["/"] THEN detect_inline_comment(o, chr)
    ELSE IF GetAot(o, chr + 1) = Ch["*"] THEN detect_multiline_comment(o, chr)
    ELSE UNDETECTED

(***************************************************************************)
(* detect_character                                                        *)
(***************************************************************************)
\* u32::from_str_radix(codepoint, 16) of a string of hex digits.
HexDigitValue(c) ==
    IF IsDigit(c) THEN c - Ch["0"]
    ELSE IF c >= Ch["a"] THEN c - Ch["a"] + 10
    ELSE c - Ch["A"] + 10

RECURSIVE HexValue(_)
HexValue(digits) ==
    IF Len(digits) = 0 THEN 0
    ELSE 16 * HexValue(SubSeq(digits, 1, Len(digits) - 1))
         + HexDigitValue(digits[Len(digits)])

\* Mutant: the codepoint is not compared with 0x10FFFF.
UnicodeCharEnd_AnyValue(o, chr, codepoint) ==
    LET l == Len(codepoint) + 5 IN
    IF GetAot(o, chr + l) # Ch["'"] THEN UNDETECTED
    ELSE IF Len(codepoint) = 0 THEN UNDETECTED
    ELSE Result("CharacterUnicode", chr + l + 1)

\* The end of detect_unicode_char(), once the closing curly bracket is found.
UnicodeCharEnd(o, chr, codepoint) ==
    LET l == Len(codepoint) + 5 IN
    IF GetAot(o, chr + l) # Ch["'"] THEN UNDETECTED
    ELSE IF Len(codepoint) = 0 THEN UNDETECTED  \* from_str_radix("") is Err
    ELSE IF HexValue(codepoint) > 1114111 THEN UNDETECTED  \* 0x10FFFF
    ELSE Result("CharacterUnicode", chr + l + 1)

\* `for i in 4..11`, collecting the hex digits of the codepoint.
RECURSIVE UnicodeCharLoop(_, _, _, _)
UnicodeCharLoop(o, chr, i, codepoint) ==
    IF ~(i < 11) THEN UNDETECTED  \* found_closing_curly_bracket is false
    ELSE LET c == GetAot(o, chr + i) IN
         IF c = Ch["}"] THEN UnicodeCharEnd(o, chr, codepoint)
         ELSE IF IsAsciiHexdigit(c)
              THEN UnicodeCharLoop(o, chr, i + 1, Append(codepoint, c))
         ELSE UNDETECTED

detect_unicode_char(o, chr) ==
    IF Len(o) < chr + 7 \/ GetAot(o, chr + 3) # Ch["{"] THEN UNDETECTED
    ELSE UnicodeCharLoop(o, chr, 4, <<>>)

SimpleBackslashable ==
    {Ch["n"], Ch["r"], Ch["t"], Ch["\\"], Ch["0"], Ch["\""], Ch["'"]}

\* Mutant: the test for the empty '' is missing.
detect_character_EmptyOk(o, chr) ==
    IF Len(o) < chr + 3 THEN UNDETECTED
    ELSE IF GetAot(o, chr) # Ch["'"] THEN UNDETECTED
    ELSE LET c1_end == SkipToBoundary(o, chr + 2) IN
         IF c1_end < 0 THEN HUNG
         ELSE IF Len(o) < c1_end + 1 THEN UNDETECTED
         ELSE IF ~SliceOk(o, chr + 1, c1_end) THEN PANICKED
         ELSE LET c1 == Slice(o, chr + 1, c1_end)
                  c2 == GetAot(o, chr + 2)
              IN IF c1 # <<Ch["\\"]>>
                 THEN IF GetAot(o, c1_end) # Ch["'"] THEN UNDETECTED
                      ELSE Result("CharacterPlain", c1_end + 1)
                 ELSE IF c2 \in SimpleBackslashable
                 THEN IF Len(o) >= chr + 4 /\ GetAot(o, chr + 3) = Ch["'"]
                      THEN Result("CharacterPlain", chr + 4)
                      ELSE UNDETECTED
                 ELSE IF c2 = Ch["x"]
                 THEN IF /\ Len(o) >= chr + 6
                         /\ GetAot(o, chr + 3) >= Ch["0"]
                         /\ GetAot(o, chr + 3) <= Ch["7"]
                         /\ IsAsciiHexdigit(GetAot(o, chr + 4))
                         /\ GetAot(o, chr + 5) = Ch["'"]
                      THEN Result("CharacterHex", chr + 6)
                      ELSE UNDETECTED
                 ELSE IF c2 = Ch["u"] THEN detect_unicode_char(o, chr)
                 ELSE UNDETECTED

\* Mutant: the first digit after \x may be any hex digit.
detect_character_AnyHex(o, chr) ==
    IF Len(o) < chr + 3 THEN UNDETECTED
    ELSE IF GetAot(o, chr) # Ch["'"] THEN UNDETECTED
    ELSE LET c1_end == SkipToBoundary(o, chr + 2) IN
         IF c1_end < 0 THEN HUNG
         ELSE IF Len(o) < c1_end + 1 THEN UNDETECTED
         ELSE IF ~SliceOk(o, chr + 1, c1_end) THEN PANICKED
         ELSE LET c1 == Slice(o, chr + 1, c1_end)
                  c2 == GetAot(o, chr + 2)
              IN IF c1 # <<Ch["\\"]>>
                 THEN IF c1 = <<Ch["'"]>> THEN UNDETECTED
                      ELSE IF GetAot(o, c1_end) # Ch["'"] THEN UNDETECTED
                      ELSE Result("CharacterPlain", c1_end + 1)
                 ELSE IF c2 \in SimpleBackslashable
                 THEN IF Len(o) >= chr + 4 /\ GetAot(o, chr + 3) = Ch["'"]
                      THEN Result("CharacterPlain", chr + 4)
                      ELSE UNDETECTED
                 ELSE IF c2 = Ch["x"]
                 THEN IF /\ Len(o) >= chr + 6
                         /\ IsAsciiHexdigit(GetAot(o, chr + 3))
                         /\ IsAsciiHexdigit(GetAot(o, chr + 4))
                         /\ GetAot(o, chr + 5) = Ch["'"]
                      THEN Result("CharacterHex", chr + 6)
                      ELSE UNDETECTED
                 ELSE IF c2 = Ch["u"] THEN detect_unicode_char(o, chr)
                 ELSE UNDETECTED

\* Mutant: a character literal ends three bytes after its start, whatever
\* the width of its character.
detect_character_ThreeBytes(o, chr) ==
    IF Len(o) < chr + 3 THEN UNDETECTED
    ELSE IF GetAot(o, chr) # Ch["'"] THEN UNDETECTED
    ELSE LET c1_end == SkipToBoundary(o, chr + 2) IN
         IF c1_end < 0 THEN HUNG
         ELSE IF Len(o) < c1_end + 1 THEN UNDETECTED
         ELSE IF ~SliceOk(o, chr + 1, c1_end) THEN PANICKED
         ELSE LET c1 == Slice(o, chr + 1, c1_end)
                  c2 == GetAot(o, chr + 2)
              IN IF c1 # <<Ch["\\"]>>
                 THEN IF c1 = <<Ch["'"]>> THEN UNDETECTED
                      ELSE IF GetAot(o, c1_end) # Ch["'"] THEN UNDETECTED
                      ELSE Result("CharacterPlain", chr + 3)
                 ELSE IF c2 \in SimpleBackslashable
                 THEN IF Len(o) >= chr + 4 /\ GetAot(o, chr + 3) = Ch["'"]
                      THEN Result("CharacterPlain", chr + 4)
                      ELSE UNDETECTED
                 ELSE IF c2 = Ch["x"]
                 THEN IF /\ Len(o) >= chr + 6
                         /\ GetAot(o, chr + 3) >= Ch["0"]
                         /\ GetAot(o, chr + 3) <= Ch["7"]
                         /\ IsAsciiHexdigit(GetAot(o, chr + 4))
                         /\ GetAot(o, chr + 5) = Ch["'"]
                      THEN Result("CharacterHex", chr + 6)
                      ELSE UNDETECTED
                 ELSE IF c2 = Ch["u"] THEN detect_unicode_char(o, chr)
                 ELSE UNDETECTED

detect_character(o, chr) ==
    IF Len(o) < chr + 3 THEN UNDETECTED
    ELSE IF GetAot(o, chr) # Ch["'"] THEN UNDETECTED
    ELSE LET c1_end == SkipToBoundary(o, chr + 2) IN
         IF c1_end < 0 THEN HUNG
         ELSE IF Len(o) < c1_end + 1 THEN UNDETECTED
         ELSE IF ~SliceOk(o, chr + 1, c1_end) THEN PANICKED
         ELSE LET c1 == Slice(o, chr + 1, c1_end)
                  c2 == GetAot(o, chr + 2)
              IN IF c1 # <<Ch["\\"]>>
                 THEN IF c1 = <<Ch["'"]>> THEN UNDETECTED
                      ELSE IF GetAot(o, c1_end) # Ch["'"] THEN UNDETECTED
                      ELSE Result("CharacterPlain", c1_end + 1)
                 ELSE IF c2 \in SimpleBackslashable
                 THEN IF Len(o) >= chr + 4 /\ GetAot(o, chr + 3) = Ch["'"]
                      THEN Result("CharacterPlain", chr + 4)
                      ELSE UNDETECTED
                 ELSE IF c2 = Ch["x"]
                 THEN IF /\ Len(o) >= chr + 6
                         /\ GetAot(o, chr + 3) >= Ch["0"]
                         /\ GetAot(o, chr + 3) <= Ch["7"]
                         /\ IsAsciiHexdigit(GetAot(o, chr + 4))
                         /\ GetAot(o, chr + 5) = Ch["'"]
                      THEN Result("CharacterHex", chr + 6)
                      ELSE UNDETECTED
                 ELSE IF c2 = Ch["u"] THEN detect_unicode_char(o, chr)
                 ELSE UNDETECTED

(***************************************************************************)
(* detect_number                                                           *)
(***************************************************************************)
\* `for i in chr+2..len` of detect_number_binary().
RECURSIVE BinaryLoop(_, _, _)
BinaryLoop(o, i, has_digit) ==
    IF ~(i < Len(o))
    THEN IF has_digit THEN Result("NumberBinary", Len(o)) ELSE UNDETECTED
    ELSE LET c == GetAot(o, i) IN
         IF c = Ch["_"] THEN BinaryLoop(o, i + 1, has_digit)
         ELSE IF c = Ch["0"] \/ c = Ch["1"] THEN BinaryLoop(o, i + 1, TRUE)
         ELSE IF IsDigit(c) \/ c = Ch["."] THEN UNDETECTED
         ELSE IF has_digit THEN Result("NumberBinary", i) ELSE UNDETECTED

detect_number_binary(o, chr) == BinaryLoop(o, chr + 2, FALSE)

\* `for i in chr+2..len` of detect_number_hex().
RECURSIVE HexLoop(_, _, _)
\* Mutant: an underscore counts as a digit.
HexLoop_UnderscoreDigit(o, i, has_digit) ==
    IF ~(i < Len(o))
    THEN IF has_digit THEN Result("NumberHex", Len(o)) ELSE UNDETECTED
    ELSE LET c == GetAot(o, i) IN
         IF c = Ch["_"] THEN HexLoop(o, i + 1, TRUE)
         ELSE IF IsAsciiHexdigit(c) THEN HexLoop(o, i + 1, TRUE)
         ELSE IF c = Ch["."] THEN UNDETECTED
         ELSE IF has_digit THEN Result("NumberHex", i) ELSE UNDETECTED

HexLoop(o, i, has_digit) ==
    IF ~(i < Len(o))
    THEN IF has_digit THEN Result("NumberHex", Len(o)) ELSE UNDETECTED
    ELSE LET c == GetAot(o, i) IN
         IF c = Ch["_"] THEN HexLoop(o, i + 1, has_digit)
         ELSE IF IsAsciiHexdigit(c) THEN HexLoop(o, i + 1, TRUE)
         ELSE IF c = Ch["."] THEN UNDETECTED
         ELSE IF has_digit THEN Result("NumberHex", i) ELSE UNDETECTED

detect_number_hex(o, chr) == HexLoop(o, chr + 2, FALSE)

\* `for i in chr+2..len` of detect_number_octal().
RECURSIVE OctalLoop(_, _, _)
OctalLoop(o, i, has_digit) ==
    IF ~(i < Len(o))
    THEN IF has_digit THEN Result("NumberOctal", Len(o)) ELSE UNDETECTED
    ELSE LET c == GetAot(o, i) IN
         IF c = Ch["_"] THEN OctalLoop(o, i + 1, has_digit)
         ELSE IF c >= Ch["0"] /\ c <= Ch["7"] THEN OctalLoop(o, i + 1, TRUE)
         ELSE IF c = Ch["."] THEN UNDETECTED
         ELSE IF has_digit THEN Result("NumberOctal", i) ELSE UNDETECTED

detect_number_octal(o, chr) == OctalLoop(o, chr + 2, FALSE)

\* `for i in chr+1..len` of detect_number_decimal(); v holds the loop's
\* mutable variables has_dot, has_e, pos_dot, pos_e, pos_eu and pos_s.
RECURSIVE DecimalLoop(_, _, _)
\* Mutant: a sign is taken anywhere after the exponent marker.
DecimalLoop_AnySign(o, i, v) ==
    IF ~(i < Len(o))
    THEN IF Len(o) = v.pos_e \/ Len(o) = v.pos_s \/ Len(o) = v.pos_eu
         THEN UNDETECTED ELSE Result("NumberDecimal", Len(o))
    ELSE LET c == GetAot(o, i) IN
         IF c = Ch["_"]
         THEN IF v.has_dot /\ v.pos_dot = i THEN UNDETECTED
              ELSE IF v.has_e /\ v.pos_e = i
                   THEN DecimalLoop(o, i + 1, [v EXCEPT !.pos_eu = i + 1])
              ELSE DecimalLoop(o, i + 1, v)
         ELSE IF v.has_e /\ (c = Ch["+"] \/ c = Ch["-"])
         THEN DecimalLoop(o, i + 1, [v EXCEPT !.pos_s = i + 1])
         ELSE IF ~v.has_dot /\ c = Ch["."]
         THEN IF v.has_e THEN UNDETECTED
              ELSE DecimalLoop(o, i + 1,
                       [v EXCEPT !.has_dot = TRUE, !.pos_dot = i + 1])
         ELSE IF ~v.has_e /\ (c = Ch["e"] \/ c = Ch["E"])
         THEN DecimalLoop(o, i + 1, [v EXCEPT !.has_e = TRUE, !.pos_e = i + 1])
         ELSE IF c < Ch["0"] \/ c > Ch["9"]
         THEN IF i = v.pos_e \/ i = v.pos_s \/ i = v.pos_eu
              THEN UNDETECTED ELSE Result("NumberDecimal", i)
         ELSE DecimalLoop(o, i + 1, v)

\* Mutant: an underscore right after the exponent marker is not noted.
DecimalLoop_NoPosEu(o, i, v) ==
    IF ~(i < Len(o))
    THEN IF Len(o) = v.pos_e \/ Len(o) = v.pos_s \/ Len(o) = v.pos_eu
         THEN UNDETECTED ELSE Result("NumberDecimal", Len(o))
    ELSE LET c == GetAot(o, i) IN
         IF c = Ch["_"]
         THEN IF v.has_dot /\ v.pos_dot = i THEN UNDETECTED
              ELSE DecimalLoop(o, i + 1, v)
         ELSE IF v.has_e /\ v.pos_e = i /\ (c = Ch["+"] \/ c = Ch["-"])
         THEN DecimalLoop(o, i + 1, [v EXCEPT !.pos_s = i + 1])
         ELSE IF ~v.has_dot /\ c = Ch["."]
         THEN IF v.has_e THEN UNDETECTED
              ELSE DecimalLoop(o, i + 1,
                       [v EXCEPT !.has_dot = TRUE, !.pos_dot = i + 1])
         ELSE IF ~v.has_e /\ (c = Ch["e"] \/ c = Ch["E"])
         THEN DecimalLoop(o, i + 1, [v EXCEPT !.has_e = TRUE, !.pos_e = i + 1])
         ELSE IF c < Ch["0"] \/ c > Ch["9"]
         THEN IF i = v.pos_e \/ i = v.pos_s \/ i = v.pos_eu
              THEN UNDETECTED ELSE Result("NumberDecimal", i)
         ELSE DecimalLoop(o, i + 1, v)

DecimalLoop(o, i, v) ==
    IF ~(i < Len(o))
    THEN IF Len(o) = v.pos_e \/ Len(o) = v.pos_s \/ Len(o) = v.pos_eu
         THEN UNDETECTED ELSE Result("NumberDecimal", Len(o))
    ELSE LET c == GetAot(o, i) IN
         IF c = Ch["_"]
         THEN IF v.has_dot /\ v.pos_dot = i THEN UNDETECTED
              ELSE IF v.has_e /\ v.pos_e = i
                   THEN DecimalLoop(o, i + 1, [v EXCEPT !.pos_eu = i + 1])
              ELSE DecimalLoop(o, i + 1, v)
         ELSE IF v.has_e /\ v.pos_e = i /\ (c = Ch["+"] \/ c = Ch["-"])
         THEN DecimalLoop(o, i + 1, [v EXCEPT !.pos_s = i + 1])
         ELSE IF ~v.has_dot /\ c = Ch["."]
         THEN IF v.has_e THEN UNDETECTED
              ELSE DecimalLoop(o, i + 1,
                       [v EXCEPT !.has_dot = TRUE, !.pos_dot = i + 1])
         ELSE IF ~v.has_e /\ (c = Ch["e"] \/ c = Ch["E"])
         THEN DecimalLoop(o, i + 1, [v EXCEPT !.has_e = TRUE, !.pos_e = i + 1])
         ELSE IF c < Ch["0"] \/ c > Ch["9"]
         THEN IF i = v.pos_e \/ i = v.pos_s \/ i = v.pos_eu
              THEN UNDETECTED ELSE Result("NumberDecimal", i)
         ELSE DecimalLoop(o, i + 1, v)

detect_number_decimal(o, chr) ==
    DecimalLoop(o, chr + 1,
        [has_dot |-> FALSE, has_e |-> FALSE, pos_dot |-> 0, pos_e |-> 0,
         pos_eu |-> 0, pos_s |-> 0])

\* Mutant: a `0b` that is no binary literal is tried again as a decimal.
detect_number_Fallback(o, chr) ==
    IF chr >= Len(o) THEN UNDETECTED
    ELSE LET c == GetAot(o, chr) IN
         IF c < Ch["0"] \/ c > Ch["9"] THEN UNDETECTED
         ELSE IF Len(o) = chr + 1 THEN Result("NumberDecimal", Len(o))
         ELSE IF c # Ch["0"] THEN detect_number_decimal(o, chr)
         ELSE IF GetAot(o, chr + 1) = Ch["b"]
                 /\ detect_number_binary(o, chr).kind # "Undetected"
              THEN detect_number_binary(o, chr)
         ELSE IF GetAot(o, chr + 1) = Ch["x"] THEN detect_number_hex(o, chr)
         ELSE IF GetAot(o, chr + 1) = Ch["o"] THEN detect_number_octal(o, chr)
         ELSE detect_number_decimal(o, chr)

\* Mutant: B, X and O select a base as b, x and o do.
detect_number_AnyCase(o, chr) ==
    IF chr >= Len(o) THEN UNDETECTED
    ELSE LET c == GetAot(o, chr) IN
         IF c < Ch["0"] \/ c > Ch["9"] THEN UNDETECTED
         ELSE IF Len(o) = chr + 1 THEN Result("NumberDecimal", Len(o))
         ELSE IF c # Ch["0"] THEN detect_number_decimal(o, chr)
         ELSE IF GetAot(o, chr + 1) \in {Ch["b"], Ch["B"]}
              THEN detect_number_binary(o, chr)
         ELSE IF GetAot(o, chr + 1) \in {Ch["x"], Ch["X"]}
              THEN detect_number_hex(o, chr)
         ELSE IF GetAot(o, chr + 1) \in {Ch["o"], Ch["O"]}
              THEN detect_number_octal(o, chr)
         ELSE detect_number_decimal(o, chr)

detect_number(o, chr) ==
    IF chr >= Len(o) THEN UNDETECTED
    ELSE LET c == GetAot(o, chr) IN
         IF c < Ch["0"] \/ c > Ch["9"] THEN UNDETECTED
         ELSE IF Len(o) = chr + 1 THEN Result("NumberDecimal", Len(o))
         ELSE IF c # Ch["0"] THEN detect_number_decimal(o, chr)
         ELSE IF GetAot(o, chr + 1) = Ch["b"] THEN detect_number_binary(o, chr)
         ELSE IF GetAot(o, chr + 1) = Ch["x"] THEN detect_number_hex(o, chr)
         ELSE IF GetAot(o, chr + 1) = Ch["o"] THEN detect_number_octal(o, chr)
         ELSE detect_number_decimal(o, chr)

(***************************************************************************)
(* detect_string                                                           *)
(***************************************************************************)
\* The `while i < len` loop of detect_plain_string().
RECURSIVE PlainStringLoop(_, _)
\* Mutant: a backslash is a character like any other.
PlainStringLoop_NoEscape(o, i) ==
    IF ~(i < Len(o)) THEN UNDETECTED
    ELSE LET j == SkipToBoundary(o, i + 1) IN
         IF j < 0 THEN HUNG
         ELSE IF ~SliceOk(o, i, j) THEN PANICKED
         ELSE IF Slice(o, i, j) = <<Ch["\""]>> THEN Result("StringPlain", j)
         ELSE PlainStringLoop(o, j)

PlainStringLoop(o, i) ==
    IF ~(i < Len(o)) THEN UNDETECTED
    ELSE LET j == SkipToBoundary(o, i + 1) IN
         IF j < 0 THEN HUNG
         ELSE IF ~SliceOk(o, i, j) THEN PANICKED
         ELSE LET c == Slice(o, i, j) IN
              IF c = <<Ch["\\"]>>
              THEN IF j = Len(o) THEN UNDETECTED
                   ELSE LET j2 == SkipToBoundary(o, j + 1) IN
                        IF j2 < 0 THEN HUNG ELSE PlainStringLoop(o, j2)
              ELSE IF c = <<Ch["\""]>> THEN Result("StringPlain", j)
              ELSE PlainStringLoop(o, j)

detect_plain_string(o, chr) == PlainStringLoop(o, chr + 1)

\* The `while i < len` loop of detect_raw_string(); v holds the loop's
\* mutable variables hashes, found_opening_dq and found_closing_dq.
RECURSIVE RawStringLoop(_, _, _)
\* Mutant: a trailing hash that is not the last one expected is not counted.
RawStringLoop_LostHash(o, i, v) ==
    IF ~(i < Len(o))
    THEN IF v.found_closing_dq /\ v.hashes = 0
         THEN Result("StringRaw", i) ELSE UNDETECTED
    ELSE LET j == SkipToBoundary(o, i + 1) IN
         IF j < 0 THEN HUNG
         ELSE IF ~SliceOk(o, i, j) THEN PANICKED
         ELSE LET c == Slice(o, i, j) IN
              IF ~v.found_opening_dq
              THEN IF c = <<Ch["\""]>>
                   THEN RawStringLoop(o, j, [v EXCEPT !.found_opening_dq = TRUE])
                   ELSE IF c = <<Ch["#"]>>
                   THEN RawStringLoop(o, j, [v EXCEPT !.hashes = @ + 1])
                   ELSE UNDETECTED
              ELSE IF v.found_closing_dq
              THEN IF v.hashes = 0 THEN Result("StringRaw", j)
                   ELSE IF c = <<Ch["#"]>>
                   THEN IF v.hashes - 1 = 0 THEN Result("StringRaw", j)
                        ELSE RawStringLoop(o, j, v)
                   ELSE UNDETECTED
              ELSE IF c = <<Ch["\\"]>>
                   THEN IF j = Len(o) THEN UNDETECTED
                        ELSE LET j2 == SkipToBoundary(o, j + 1) IN
                             IF j2 < 0 THEN HUNG ELSE RawStringLoop(o, j2, v)
                   ELSE IF c = <<Ch["\""]>>
                   THEN IF v.hashes = 0 THEN Result("StringRaw", j)
                        ELSE RawStringLoop(o, j,
                                 [v EXCEPT !.found_closing_dq = TRUE])
                   ELSE RawStringLoop(o, j, v)

RawStringLoop(o, i, v) ==
    IF ~(i < Len(o))
    THEN IF v.found_closing_dq /\ v.hashes = 0
         THEN Result("StringRaw", i) ELSE UNDETECTED
    ELSE LET j == SkipToBoundary(o, i + 1) IN
         IF j < 0 THEN HUNG
         ELSE IF ~SliceOk(o, i, j) THEN PANICKED
         ELSE LET c == Slice(o, i, j) IN
              IF ~v.found_opening_dq
              THEN IF c = <<Ch["\""]>>
                   THEN RawStringLoop(o, j, [v EXCEPT !.found_opening_dq = TRUE])
                   ELSE IF c = <<Ch["#"]>>
                   THEN RawStringLoop(o, j, [v EXCEPT !.hashes = @ + 1])
                   ELSE UNDETECTED
              ELSE IF v.found_closing_dq
              THEN IF v.hashes = 0 THEN Result("StringRaw", j)
                   ELSE IF c = <<Ch["#"]>>
                   THEN IF v.hashes - 1 = 0 THEN Result("StringRaw", j)
                        ELSE RawStringLoop(o, j, [v EXCEPT !.hashes = @ - 1])
                   ELSE UNDETECTED
              ELSE IF c = <<Ch["\\"]>>
                   THEN IF j = Len(o) THEN UNDETECTED
                        ELSE LET j2 == SkipToBoundary(o, j + 1) IN
                             IF j2 < 0 THEN HUNG ELSE RawStringLoop(o, j2, v)
                   ELSE IF c = <<Ch["\""]>>
                   THEN IF v.hashes = 0 THEN Result("StringRaw", j)
                        ELSE RawStringLoop(o, j,
                                 [v EXCEPT !.found_closing_dq = TRUE])
                   ELSE RawStringLoop(o, j, v)

detect_raw_string(o, chr) ==
    IF Len(o) < chr + 3 THEN UNDETECTED
    ELSE RawStringLoop(o, chr + 1,
             [hashes |-> 0, found_opening_dq |-> FALSE,
              found_closing_dq |-> FALSE])

detect_string(o, chr) ==
    IF Len(o) < chr + 1 THEN UNDETECTED
    ELSE IF GetAot(o, chr) = Ch["\""] THEN detect_plain_string(o, chr)
    ELSE IF GetAot(o, chr) = Ch["r"] THEN detect_raw_string(o, chr)
    ELSE UNDETECTED

(***************************************************************************)
(* detect_identifier                                                       *)
(***************************************************************************)
\* <[&str]>::contains
Contains(table, s) == \E k \in DOMAIN table : table[k] = s

KEYWORDS ==
    << S(<<"a", "b", "s", "t", "r", "a", "c", "t">>), S(<<"a", "s">>),
       S(<<"a", "s", "y", "n", "c">>), S(<<"a", "w", "a", "i", "t">>),
       S(<<"b", "e", "c", "o", "m", "e">>), S(<<"b", "o", "x">>),
       S(<<"b", "r", "e", "a", "k">>), S(<<"c", "o", "n", "s", "t">>),
       S(<<"c", "o", "n", "t", "i", "n", "u", "e">>),
       S(<<"c", "r", "a", "t", "e">>), S(<<"d", "o">>), S(<<"d", "y", "n">>),
       S(<<"e", "l", "s", "e">>), S(<<"e", "n", "u", "m">>),
       S(<<"e", "x", "t", "e", "r", "n">>), S(<<"f", "a", "l", "s", "e">>),
       S(<<"f", "i", "n", "a", "l">>), S(<<"f", "n">>), S(<<"f", "o", "r">>),
       S(<<"i", "f">>), S(<<"i", "m", "p", "l">>), S(<<"i", "n">>),
       S(<<"l", "e", "t">>), S(<<"l", "o", "o", "p">>),
       S(<<"m", "a", "c", "r", "o">>), S(<<"m", "a", "t", "c", "h">>),
       S(<<"m", "o", "d">>), S(<<"m", "o", "v", "e">>), S(<<"m", "u", "t">>),
       S(<<"o", "v", "e", "r", "r", "i", "d", "e">>),
       S(<<"p", "r", "i", "v">>), S(<<"p", "u", "b">>), S(<<"r", "e", "f">>),
       S(<<"r", "e", "t", "u", "r", "n">>), S(<<"S", "e", "l", "f">>),
       S(<<"s", "e", "l", "f">>), S(<<"s", "t", "a", "t", "i", "c">>),
       S(<<"s", "t", "r", "u", "c", "t">>), S(<<"s", "u", "p", "e", "r">>),
       S(<<"t", "r", "a", "i", "t">>), S(<<"t", "r", "u", "e">>),
       S(<<"t", "r", "y">>), S(<<"t", "y", "p", "e">>),
       S(<<"t", "y", "p", "e", "o", "f">>), S(<<"u", "n", "i", "o", "n">>),
       S(<<"u", "n", "s", "a", "f", "e">>),
       S(<<"u", "n", "s", "i", "z", "e", "d">>), S(<<"u", "s", "e">>),
       S(<<"v", "i", "r", "t", "u", "a", "l">>),
       S(<<"w", "h", "e", "r", "e">>), S(<<"w", "h", "i", "l", "e">>),
       S(<<"y", "i", "e", "l", "d">>) >>

PRIMATIVE_TYPES ==
    << S(<<"b", "o", "o", "l">>), S(<<"c", "h", "a", "r">>),
       S(<<"f", "3", "2">>), S(<<"f", "6", "4">>), S(<<"i", "1", "2", "8">>),
       S(<<"i", "1", "6">>), S(<<"i", "3", "2">>), S(<<"i", "6", "4">>),
       S(<<"i", "8">>), S(<<"i", "s", "i", "z", "e">>), S(<<"s", "t", "r">>),
       S(<<"s", "t", "r">>), S(<<"u", "1", "2", "8">>), S(<<"u", "1", "6">>),
       S(<<"u", "3", "2">>), S(<<"u", "6", "4">>), S(<<"u", "8">>),
       S(<<"u", "s", "i", "z", "e">>) >>

\* Mutant: a word of neither table is an IdentifierOther.
categorize_identifier_Other(s) ==
    IF Contains(KEYWORDS, s) THEN "IdentifierKeyword"
    ELSE IF Contains(PRIMATIVE_TYPES, s) THEN "IdentifierStdType"
    ELSE "IdentifierOther"

\* Mutant: a word that starts with a keyword is a keyword.
categorize_identifier_Prefix(s) ==
    IF \E k \in DOMAIN KEYWORDS :
           Len(s) >= Len(KEYWORDS[k]) /\ SubSeq(s, 1, Len(KEYWORDS[k])) = KEYWORDS[k]
    THEN "IdentifierKeyword"
    ELSE IF Contains(PRIMATIVE_TYPES, s) THEN "IdentifierStdType"
    ELSE "IdentifierFreeword"

categorize_identifier(s) ==
    IF Contains(KEYWORDS, s) THEN "IdentifierKeyword"
    ELSE IF Contains(PRIMATIVE_TYPES, s) THEN "IdentifierStdType"
    ELSE "IdentifierFreeword"

\* Mutant: a digit does not continue an identifier.
IsContinuation_NoDigit(c) == c = Ch["_"] \/ IsAlphabetic(c)

\* Whether a character continues an identifier: `_`, a letter or a digit.
IsContinuation(c) == c = Ch["_"] \/ IsAlphanumeric(c)

\* `for i in chr+2..len` of detect_identifier().
RECURSIVE IdentifierLoop(_, _, _)
IdentifierLoop(o, chr, i) ==
    IF ~(i < Len(o))
    THEN IF ~SliceOk(o, chr, Len(o)) THEN PANICKED
         ELSE Result(categorize_identifier(Slice(o, chr, Len(o))), Len(o))
    ELSE IF ~IsContinuation(GetAot(o, i))
    THEN IF ~SliceOk(o, chr, i) THEN PANICKED
         ELSE Result(categorize_identifier(Slice(o, chr, i)), i)
    ELSE IdentifierLoop(o, chr, i + 1)

\* Mutant: a letter that no letter, digit or underscore follows is not an
\* identifier.
detect_identifier_NoSingle(o, chr) ==
    IF chr >= Len(o) THEN UNDETECTED
    ELSE LET c0 == GetAot(o, chr)
             c0_u == c0 = Ch["_"]
         IN IF ~c0_u /\ ~IsAlphabetic(c0) THEN UNDETECTED
            ELSE IF Len(o) = chr + 1
            THEN IF c0_u THEN UNDETECTED
                 ELSE Result("IdentifierFreeword", Len(o))
            ELSE IF ~IsContinuation(GetAot(o, chr + 1)) THEN UNDETECTED
            ELSE IdentifierLoop(o, chr, chr + 2)

detect_identifier(o, chr) ==
    IF chr >= Len(o) THEN UNDETECTED
    ELSE LET c0 == GetAot(o, chr)
             c0_u == c0 = Ch["_"]
         IN IF ~c0_u /\ ~IsAlphabetic(c0) THEN UNDETECTED
            ELSE IF Len(o) = chr + 1
            THEN IF c0_u THEN UNDETECTED
                 ELSE Result("IdentifierFreeword", Len(o))
            ELSE IF ~IsContinuation(GetAot(o, chr + 1))
            THEN IF c0_u THEN UNDETECTED
                 ELSE Result("IdentifierFreeword", chr + 1)
            ELSE IdentifierLoop(o, chr, chr + 2)

(***************************************************************************)
(* detect_punctuation                                                      *)
(***************************************************************************)
PUNCTUATION_1 ==
    << S(<<"'">>), S(<<"_">>), S(<<"-">>), S(<<",">>), S(<<";">>),
       S(<<":">>), S(<<"!">>), S(<<"?">>), S(<<".">>), S(<<"(">>),
       S(<<")">>), S(<<"[">>), S(<<"]">>), S(<<"{">>), S(<<"}">>),
       S(<<"@">>), S(<<"*">>), S(<<"/">>), S(<<"&">>), S(<<"#">>),
       S(<<"%">>), S(<<"^">>), S(<<"+">>), S(<<"<">>), S(<<"=">>),
       S(<<">">>), S(<<"|">>), S(<<"$">>) >>

PUNCTUATION_2 ==
    << S(<<"-", "=">>), S(<<"-", ">">>), S(<<":", ":">>), S(<<"!", "=">>),
       S(<<".", ".">>), S(<<"*", "=">>), S(<<"/", "=">>), S(<<"&", "&">>),
       S(<<"&", "=">>), S(<<"%", "=">>), S(<<"^", "=">>), S(<<"+", "=">>),
       S(<<"<", "<">>), S(<<"<", "=">>), S(<<"=", "=">>), S(<<"=", ">">>),
       S(<<">", "=">>), S(<<">", ">">>), S(<<"|", "=">>), S(<<"|", "|">>) >>

PUNCTUATION_3 ==
    << S(<<".", ".", ".">>), S(<<".", ".", "=">>), S(<<"<", "<", "=">>),
       S(<<">", ">", "=">>) >>

\* Mutant: the table of 3-character marks is not looked at.
detect_punctuation_TwoMax(o, chr) ==
    IF chr >= Len(o) THEN UNDETECTED
    ELSE IF ~Contains(PUNCTUATION_1, GetOrTilde(o, chr, chr + 1)) THEN UNDETECTED
    ELSE IF Len(o) = chr + 1 THEN Result("Punctuation", Len(o))
    ELSE IF ~Contains(PUNCTUATION_2, GetOrTilde(o, chr, chr + 2))
         THEN Result("Punctuation", chr + 1)
    ELSE Result("Punctuation", chr + 2)

detect_punctuation(o, chr) ==
    IF chr >= Len(o) THEN UNDETECTED
    ELSE IF ~Contains(PUNCTUATION_1, GetOrTilde(o, chr, chr + 1)) THEN UNDETECTED
    ELSE IF Len(o) = chr + 1 THEN Result("Punctuation", Len(o))
    ELSE IF ~Contains(PUNCTUATION_2, GetOrTilde(o, chr, chr + 2))
         THEN Result("Punctuation", chr + 1)
    ELSE IF Len(o) = chr + 2 THEN Result("Punctuation", Len(o))
    ELSE IF ~Contains(PUNCTUATION_3, GetOrTilde(o, chr, chr + 3))
         THEN Result("Punctuation", chr + 2)
    ELSE Result("Punctuation", chr + 3)

(***************************************************************************)
(* lexemize                                                                *)
(***************************************************************************)
\* DETECTORS: the detect_*() functions in the order lexemize() tries them.
\* Mutant: the detectors in alphabetical order, detect_identifier() before
\* detect_string().
DETECTORS_Alphabetical ==
    << "detect_character", "detect_comment", "detect_identifier",
       "detect_number", "detect_punctuation", "detect_string",
       "detect_whitespace" >>

DETECTORS ==
    << "detect_character", "detect_comment", "detect_string",
       "detect_identifier", "detect_number", "detect_punctuation",
       "detect_whitespace" >>

\* A call of the detector function named d.
Detect(d, o, chr) ==
    CASE d = "detect_character" -> detect_character(o, chr)
      [] d = "detect_comment" -> detect_comment(o, chr)
      [] d = "detect_string" -> detect_string(o, chr)
      [] d = "detect_identifier" -> detect_identifier(o, chr)
      [] d = "detect_number" -> detect_number(o, chr)
      [] d = "detect_punctuation" -> detect_punctuation(o, chr)
      [] d = "detect_whitespace" -> detect_whitespace(o, chr)

\* `for detector in DETECTORS.iter()`: the result of the first detector, from
\* the k-th on, whose kind is not Undetected; UNDETECTED if there is none.
RECURSIVE FirstDetected(_, _, _)
FirstDetected(o, chr, k) ==
    IF k > Len(DETECTORS) THEN UNDETECTED
    ELSE LET r == Detect(DETECTORS[k], o, chr) IN
         IF r.kind # "Undetected" THEN r ELSE FirstDetected(o, chr, k + 1)

\* What the body of the `'outer: while` loop finds at the cursor.
Detected(o, chr) ==
    IF IsCharBoundary(o, chr) THEN FirstDetected(o, chr, 1) ELSE UNDETECTED

Lexeme(kind, chr, snippet) == [kind |-> kind, chr |-> chr, snippet |-> snippet]

\* The snippet of the end-of-input Lexeme, "<EOI>".
EOI == S(<<"<", "E", "O", "I", ">">>)

\* lexemes.push() of the Unidentifiable Lexeme, if there are unidentified
\* bytes before the cursor.
\* Mutant: the snippet of the unidentified bytes starts one byte late.
FlushUnidentifiable_Late(o, lx, unident_chr, chr) ==
    IF unident_chr # chr
    THEN Append(lx, Lexeme("Unidentifiable", unident_chr,
                           Slice(o, unident_chr + 1, chr)))
    ELSE lx

FlushUnidentifiable(o, lx, unident_chr, chr) ==
    IF unident_chr # chr
    THEN Append(lx, Lexeme("Unidentifiable", unident_chr, Slice(o, unident_chr, chr)))
    ELSE lx

\* The state of lexemize(): its local variables, and where it stands.
LexState(chr, unident_chr, lx, pc) ==
    [chr |-> chr, unident_chr |-> unident_chr, lexemes |-> lx, pc |-> pc]

LexInit == LexState(0, 0, <<>>, "loop")

\* Mutant: the unidentified bytes before a match are not recorded.
LexMatch_NoFlush(o, s, r) ==
    IF r.kind \in {"Panic", "Hang"}
    THEN [s EXCEPT !.pc = IF r.kind = "Panic" THEN "panic" ELSE "hang"]
    ELSE IF ~SliceOk(o, s.chr, r.pos) THEN [s EXCEPT !.pc = "panic"]
    ELSE LexState(r.pos, r.pos,
             Append(s.lexemes, Lexeme(r.kind, s.chr, Slice(o, s.chr, r.pos))),
             "loop")

\* Mutant: `unident_chr = next_chr` is missing after a match.
LexMatch_KeepUnident(o, s, r) ==
    IF r.kind \in {"Panic", "Hang"}
    THEN [s EXCEPT !.pc = IF r.kind = "Panic" THEN "panic" ELSE "hang"]
    ELSE IF s.unident_chr # s.chr /\ ~SliceOk(o, s.unident_chr, s.chr)
    THEN [s EXCEPT !.pc = "panic"]
    ELSE IF ~SliceOk(o, s.chr, r.pos) THEN [s EXCEPT !.pc = "panic"]
    ELSE LexState(r.pos, s.unident_chr,
             Append(FlushUnidentifiable(o, s.lexemes, s.unident_chr, s.chr),
                    Lexeme(r.kind, s.chr, Slice(o, s.chr, r.pos))),
             "loop")

\* An iteration of the loop in which a detector matched: record the
\* unidentified bytes, then the Lexeme, and step to the position after it.
LexMatch(o, s, r) ==
    IF r.kind \in {"Panic", "Hang"}
    THEN [s EXCEPT !.pc = IF r.kind = "Panic" THEN "panic" ELSE "hang"]
    ELSE IF s.unident_chr # s.chr /\ ~SliceOk(o, s.unident_chr, s.chr)
    THEN [s EXCEPT !.pc = "panic"]
    ELSE IF ~SliceOk(o, s.chr, r.pos)
    THEN [s EXCEPT !.pc = "panic",
                   !.lexemes = FlushUnidentifiable(o, @, s.unident_chr, s.chr)]
    ELSE LexState(r.pos, r.pos,
             Append(FlushUnidentifiable(o, s.lexemes, s.unident_chr, s.chr),
                    Lexeme(r.kind, s.chr, Slice(o, s.chr, r.pos))),
             "loop")

\* An iteration of the loop in which nothing was detected: `chr += 1`.
LexSkip(s) == [s EXCEPT !.chr = @ + 1]

\* Mutant: the end-of-input Lexeme starts where the unidentified bytes start.
LexFinish_SentinelAtRun(o, s) ==
    IF s.unident_chr # s.chr /\ ~SliceOk(o, s.unident_chr, s.chr)
    THEN [s EXCEPT !.pc = "panic"]
    ELSE [s EXCEPT !.pc = "done",
                   !.lexemes =
                       Append(FlushUnidentifiable(o, @, s.unident_chr, s.chr),
                              Lexeme("WhitespaceTrimmable", s.unident_chr, EOI))]

\* Mutant: the unidentified bytes at the end of the input are not recorded.
LexFinish_NoFlush(o, s) ==
    [s EXCEPT !.pc = "done",
              !.lexemes = Append(@, Lexeme("WhitespaceTrimmable", s.chr, EOI))]

\* The code after the loop: the final Unidentifiable Lexeme, if any, and the
\* end-of-input Lexeme.
LexFinish(o, s) ==
    IF s.unident_chr # s.chr /\ ~SliceOk(o, s.unident_chr, s.chr)
    THEN [s EXCEPT !.pc = "panic"]
    ELSE [s EXCEPT !.pc = "done",
                   !.lexemes =
                       Append(FlushUnidentifiable(o, @, s.unident_chr, s.chr),
                              Lexeme("WhitespaceTrimmable", s.chr, EOI))]

\* lexemize(orig) as a function: the state it ends in.
RECURSIVE LexRun(_, _)
LexRun(o, s) ==
    IF s.pc # "loop" THEN s
    ELSE IF ~(s.chr < Len(o)) THEN LexFinish(o, s)
    ELSE LET r == Detected(o, s.chr) IN
         IF r.kind # "Undetected" THEN LexRun(o, LexMatch(o, s, r))
         ELSE LexRun(o, LexSkip(s))

lexemize(o) == LexRun(o, LexInit)

(***************************************************************************)
(* The inputs: every text of at most MaxLen characters over each of three  *)
(* small alphabets, the inputs of the repository's tests (the seeds), and  *)
(* every piece of a seed of at most MaxSub bytes.                          *)
(***************************************************************************)
MaxLen == 3
MaxSub == 8

Euro == <<226, 130, 172>>  \* U+20AC, three bytes
NextLine == <<194, 133>>   \* U+0085, two bytes

AlphabetLiteral ==
    { S(<<"'">>), S(<<"\\">>), S(<<"\"">>), S(<<"r">>), S(<<"#">>),
      S(<<"n">>), Euro }
AlphabetComment ==
    { S(<<"/">>), S(<<"*">>), S(<<"\n">>), S(<<" ">>), S(<<"=">>),
      S(<<"a">>), S(<<"~">>), NextLine }
AlphabetNumber ==
    { S(<<"0">>), S(<<"1">>), S(<<"2">>), S(<<"b">>), S(<<"e">>),
      S(<<".">>), S(<<"_">>), S(<<"+">>) }

RECURSIVE Texts(_, _)
Texts(alphabet, n) ==
    IF n = 0 THEN {<<>>}
    ELSE LET shorter == Texts(alphabet, n - 1) IN
         shorter \cup {t \o c : t \in shorter, c \in alphabet}

\* lexemize.rs:212, one of each basic Lexeme
Seed1 ==
    S(<<"'", "A", "'", "/", "*", "B", "*", "/", "C", " ", "1", "!", "\"", "D",
        "\"", "\n">>)
\* lexemize.rs:224, the same with a three-byte character
Seed2 ==
    S(<<"'">>) \o <<226, 130, 172>> \o S(<<"'", "/", "*">>) \o
    <<226, 130, 172>> \o S(<<"*", "/">>) \o <<226, 130, 172>> \o
    S(<<"1", "!", "\"">>) \o <<226, 130, 172>> \o S(<<"\"", "\n">>)
\* lexemize.rs:250, characters
Seed3 ==
    S(<<"'", "Z", "'", "'", "\\", "t", "'", "'", "\\", "x", "3", "F", "'", "'",
        "\\", "u", "{", "3", "F", "}", "'">>)
\* lexemize.rs:263, comments
Seed4 ==
    S(<<"/", "*", "*", "A", "/", "*", "A", "'", "*", "/", "*", "/", "/", "/",
        "B", "\n", "/", "/", "C">>)
\* lexemize.rs:276, identifiers
Seed5 ==
    S(<<"u", "3", "2", ";", "_", "D", ",", "_", "_", "1", "2", " ", "a", "s",
        " ", "f", "o", "o", "!">>)
\* lexemize.rs:295, numbers (shortened)
Seed6 ==
    S(<<"0", "b", "1", "_", "0", " ", "1", "_", "2", ".", "3", "_", "4", "E",
        "+", "_", "5", "_", " ", "0", "x", "_", "a", "B", "_", " ", "0",
        "o", "1", "_", "7">>)
\* lexemize.rs:311, punctuation
Seed7 ==
    S(<<";", "*", "=", ">", ">", "=">>)
\* lexemize.rs:323, strings
Seed8 ==
    S(<<"\"", "\"", "\"", "o", "k", "\"", "r", "#", "#", "\"", "\\", "\"",
        "\"", "#", "#">>)
\* lexemize.rs:335, unidentifiable mixture
Seed9 ==
    S(<<"~">>) \o <<194, 182>> \o S(<<" ">>) \o <<226, 130, 172>>
\* lexemize.rs:349, unidentifiable non-ASCII
Seed10 ==
    <<195, 169>> \o <<194, 162>> \o <<226, 130, 172>> \o <<194, 177>>
\* lexemize.rs:359, whitespace, with U+0085 and U+2028 added
Seed11 ==
    S(<<"\t", "\t", "a", " ", "\n", "\n", "b", "\r", " ">>) \o <<194, 133>> \o
    <<226, 128, 168>>
\* number.rs:381 and number.rs:419, a rejected and a truncated number
Seed12 ==
    S(<<"0", "b", "1", "2", " ", "0", "x", "1", "g">>)
\* string.rs:264, a raw string one closing hash short
Seed13 ==
    S(<<"r", "#", "#", "\"", "\\", "z", "\\", "\"", "\"", "#">>)
\* comment.rs:203, nested comment edge case
Seed14 ==
    S(<<"/", "*", "/", "*", " ", "*", "/", "*", " ", "*", "/">>)
\* string.rs:262 with a second leading hash: a raw string one closing
\* double quote and one closing hash short
Seed15 ==
    S(<<"r", "#", "#", "\"", "\\", "z", "\\", "\"", "#">>)
Seeds ==
    { Seed1, Seed2, Seed3, Seed4, Seed5, Seed6, Seed7, Seed8, Seed9,
      Seed10, Seed11, Seed12, Seed13, Seed14, Seed15 }

Pieces(seed, n) ==
    { Slice(seed, a, b) :
        <<a, b>> \in { p \in (0..Len(seed)) \X (0..Len(seed)) :
                         p[2] - p[1] <= n /\ SliceOk(seed, p[1], p[2]) } }

Inputs ==
    Texts(AlphabetLiteral, MaxLen) \cup Texts(AlphabetComment, MaxLen)
    \cup Texts(AlphabetNumber, MaxLen) \cup Seeds
    \cup UNION { Pieces(seed, MaxSub) : seed \in Seeds }

(***************************************************************************)
(* The state machine: a call lexemize(orig), one loop iteration at a time, *)
(* and then a second call on the concatenation of the result's snippets.   *)
(***************************************************************************)
VARIABLES
    orig,         \* the input text
    chr,          \* the cursor
    unident_chr,  \* where the unidentified bytes before the cursor start
    lexemes,      \* the Lexemes recorded so far
    pc,           \* "loop", "done", or "panic" / "hang" if it ends abnormally
    again,        \* the second call: its input and its result, or NoCall
    probe         \* a direct call of one detector and its result, or NoCall

vars == <<orig, chr, unident_chr, lexemes, pc, again, probe>>

NoCall == [called |-> FALSE]

Current == LexState(chr, unident_chr, lexemes, pc)

Become(s) ==
    /\ chr' = s.chr
    /\ unident_chr' = s.unident_chr
    /\ lexemes' = s.lexemes
    /\ pc' = s.pc

Init ==
    /\ orig \in Inputs
    /\ chr = 0
    /\ unident_chr = 0
    /\ lexemes = <<>>
    /\ pc = "loop"
    /\ again = NoCall
    /\ probe = NoCall

\* A loop iteration in which some detector matches at the cursor.
Match ==
    /\ pc = "loop"
    /\ chr < Len(orig)
    /\ LET r == Detected(orig, chr) IN
         /\ r.kind # "Undetected"
         /\ Become(LexMatch(orig, Current, r))
    /\ UNCHANGED <<orig, again, probe>>

\* A loop iteration in which none does, or the cursor is inside a character.
Skip ==
    /\ pc = "loop"
    /\ chr < Len(orig)
    /\ Detected(orig, chr).kind = "Undetected"
    /\ Become(LexSkip(Current))
    /\ UNCHANGED <<orig, again, probe>>

\* The end of the loop.
Finish ==
    /\ pc = "loop"
    /\ ~(chr < Len(orig))
    /\ Become(LexFinish(orig, Current))
    /\ UNCHANGED <<orig, again, probe>>

\* The concatenation of the snippets of a list of Lexemes.
RECURSIVE Concat(_)
Concat(lx) ==
    IF Len(lx) = 0 THEN <<>>
    ELSE Concat(SubSeq(lx, 1, Len(lx) - 1)) \o lx[Len(lx)].snippet

\* The caller lexemizes the concatenation of the snippets of the result:
\* of all of them, or of all but the end-of-input Lexeme's.
Relexemize ==
    /\ pc = "done"
    /\ again = NoCall
    /\ \E all \in BOOLEAN :
         LET text == IF all THEN Concat(lexemes)
                     ELSE Concat(SubSeq(lexemes, 1, Len(lexemes) - 1))
         IN again' = [called |-> TRUE, all |-> all, text |-> text,
                      result |-> lexemize(text)]
    /\ UNCHANGED <<orig, chr, unident_chr, lexemes, pc, probe>>

Next == Match \/ Skip \/ Finish \/ Relexemize

Spec == Init /\ [][Next]_vars

(***************************************************************************)
(* The detectors called directly, as their unit tests call them: any of    *)
(* the seven, at any offset from 0 to MaxPast bytes past the end of the    *)
(* text, on a character boundary or not.                                   *)
(***************************************************************************)
MaxPast == 2

Probe ==
    /\ probe = NoCall
    /\ \E d \in DOMAIN DETECTORS, c \in 0..(Len(orig) + MaxPast) :
         probe' = [called |-> TRUE, detector |-> DETECTORS[d], chr |-> c,
                   result |-> Detect(DETECTORS[d], orig, c)]
    /\ UNCHANGED <<orig, chr, unident_chr, lexemes, pc, again>>

SpecDetect == Init /\ [][Probe]_vars

(***************************************************************************)
(* Properties of lexemize()                                                *)
(***************************************************************************)
\* Where a Lexeme ends: its start plus the byte length of its snippet.
EndOf(lx) == lx.chr + Len(lx.snippet)

\* The (kind, start) pairs of a list of Lexemes.
KindStarts(lx) == [k \in DOMAIN lx |-> <<lx[k].kind, lx[k].chr>>]

\* Whether a text holds a character of more than one byte.
HasMultiByte(o) == \E k \in DOMAIN o : o[k] >= 128

IsSentinel(l) == l.kind = "WhitespaceTrimmable" /\ l.snippet = EOI

\* C1: in the list lexemize returns, the first Lexeme starts at offset 0,
\* every Lexeme starts where the one before it ends (its start plus the byte
\* length of its snippet), and the Lexemes before the sentinel cover every
\* byte of the input exactly once.
C1_Contiguity ==
    pc = "done" =>
        /\ lexemes[1].chr = 0
        /\ \A k \in 1..(Len(lexemes) - 1) : lexemes[k + 1].chr = EndOf(lexemes[k])
        /\ \A b \in 0..(Len(orig) - 1) :
             Cardinality({ k \in 1..(Len(lexemes) - 1) :
                             lexemes[k].chr <= b /\ b < EndOf(lexemes[k]) }) = 1

\* A result in which an unidentified run lies between two matches.
C1_Witness ==
    /\ pc = "done"
    /\ \E k \in 2..(Len(lexemes) - 2) :
         /\ lexemes[k].kind = "Unidentifiable"
         /\ lexemes[k + 1].kind # "Unidentifiable"

\* C2, as the claim states it: the snippets of every Lexeme of the result,
\* the sentinel included, concatenate to the input.
C2_Original == pc = "done" => Concat(lexemes) = orig

\* C2, amended: the snippets of every Lexeme of the result but the sentinel
\* concatenate, in order, to the input, byte for byte.
C2_Coverage ==
    pc = "done" => Concat(SubSeq(lexemes, 1, Len(lexemes) - 1)) = orig

\* A result of several Lexemes over an input with a multi-byte character.
C2_Witness == pc = "done" /\ Len(lexemes) >= 4 /\ HasMultiByte(orig)

\* C3: the last Lexeme of a result is the sentinel (WhitespaceTrimmable,
\* snippet "<EOI>", start = byte length of the input), no earlier Lexeme is
\* a sentinel, and for the empty input the sentinel at 0 is the only Lexeme.
\* It holds of the second call too, whose input may contain "<EOI>".
SentinelLast(o, lx) ==
    /\ Len(lx) >= 1
    /\ lx[Len(lx)] = Lexeme("WhitespaceTrimmable", Len(o), EOI)
    /\ \A k \in 1..(Len(lx) - 1) : ~IsSentinel(lx[k])
    /\ (o = <<>> => lx = <<Lexeme("WhitespaceTrimmable", 0, EOI)>>)

C3_Sentinel ==
    /\ pc = "done" => SentinelLast(orig, lexemes)
    /\ again.called => SentinelLast(again.text, again.result.lexemes)

\* A result that ends in whitespace of the input, followed by the sentinel.
C3_Witness ==
    /\ pc = "done"
    /\ Len(lexemes) >= 2
    /\ lexemes[Len(lexemes) - 1].kind = "WhitespaceTrimmable"

\* C4: lexemize is total.  Every step of the loop moves the cursor forward,
\* by a match of at least one byte or by one byte, never past the end of the
\* input and never into a panic (a refused slice) or a loop that does not
\* end, so the loop ends after at most Len(orig) steps; it is left, with the
\* cursor at the end of the input, only for the code that returns the result.
C4_StepOk ==
    pc = "loop" =>
        \/ pc' = "loop" /\ chr' > chr /\ chr' <= Len(orig)
        \/ pc' = "done" /\ chr' = chr /\ chr = Len(orig)

C4_Total == [][C4_StepOk]_vars

\* A finished call whose cursor stepped through a multi-byte character.
C4_Witness ==
    /\ pc = "done"
    /\ \E k \in DOMAIN lexemes :
         lexemes[k].kind = "Unidentifiable" /\ HasMultiByte(lexemes[k].snippet)

\* The order of the detectors, as the claim gives it.
PriorityOrder ==
    << "detect_character", "detect_comment", "detect_string",
       "detect_identifier", "detect_number", "detect_punctuation",
       "detect_whitespace" >>

\* The places in that order of the detectors that match at offset c.
Matching(o, c) ==
    { d \in DOMAIN PriorityOrder : Detect(PriorityOrder[d], o, c).kind # "Undetected" }

\* The smallest of a non-empty set of numbers.
Min(set) == CHOOSE m \in set : \A n \in set : m <= n

\* The Lexemes of the result that a detector matched.
IsMatch(k) ==
    /\ lexemes[k].kind # "Unidentifiable"
    /\ ~(pc = "done" /\ k = Len(lexemes))

\* C5: every Lexeme that is a match has the kind and the end offset that the
\* first detector, in the order character, comment, string, identifier,
\* number, punctuation, whitespace, whose result is not Undetected returns at
\* the Lexeme's start; and where detect_string finds a raw string the Lexeme
\* is a StringRaw.
C5_Priority ==
    \A k \in DOMAIN lexemes :
        IsMatch(k) =>
            LET c == lexemes[k].chr IN
            /\ IsCharBoundary(orig, c)
            /\ Matching(orig, c) # {}
            /\ LET r == Detect(PriorityOrder[Min(Matching(orig, c))], orig, c) IN
                 lexemes[k].kind = r.kind /\ EndOf(lexemes[k]) = r.pos
            /\ (detect_string(orig, c).kind = "StringRaw"
                    => lexemes[k].kind = "StringRaw")

\* A raw string was emitted where detect_identifier matches too.
C5_Witness ==
    \E k \in DOMAIN lexemes :
        /\ lexemes[k].kind = "StringRaw"
        /\ detect_identifier(orig, lexemes[k].chr).kind # "Undetected"

\* C6: every Unidentifiable Lexeme of a result is a non-empty, maximal
\* unrecognised run: it starts at offset 0 or at the end of a match, ends at
\* the start of a match or at the end of the input, no detector matches at
\* any character boundary inside it, the Lexeme after it is the match that
\* ends it or the sentinel, and no Unidentifiable Lexeme is next to another.
C6_Unidentifiable ==
    pc = "done" =>
        \A k \in DOMAIN lexemes :
            lexemes[k].kind = "Unidentifiable" =>
                /\ Len(lexemes[k].snippet) > 0
                /\ lexemes[k].snippet = Slice(orig, lexemes[k].chr, EndOf(lexemes[k]))
                /\ IF k = 1 THEN lexemes[k].chr = 0
                   ELSE /\ lexemes[k - 1].kind # "Unidentifiable"
                        /\ lexemes[k].chr = EndOf(lexemes[k - 1])
                /\ k < Len(lexemes)
                /\ lexemes[k + 1].kind # "Unidentifiable"
                /\ lexemes[k + 1].chr = EndOf(lexemes[k])
                /\ IF k + 1 = Len(lexemes) THEN EndOf(lexemes[k]) = Len(orig)
                   ELSE Matching(orig, EndOf(lexemes[k])) # {}
                /\ \A c \in lexemes[k].chr..(EndOf(lexemes[k]) - 1) :
                     IsCharBoundary(orig, c) => Matching(orig, c) = {}

\* A result with an unidentified run of several characters before a match.
C6_Witness ==
    /\ pc = "done"
    /\ \E k \in 1..(Len(lexemes) - 2) :
         /\ lexemes[k].kind = "Unidentifiable"
         /\ \E c \in (lexemes[k].chr + 1)..(EndOf(lexemes[k]) - 1) :
              IsCharBoundary(orig, c)

\* The kinds no detector implements.
ReservedKinds ==
    { "CharacterByte", "CommentDocInline", "CommentDocMultiline",
      "IdentifierOther", "StringByte", "StringByteRaw" }

\* C7: no Lexeme that lexemize records has the kind Undetected or a reserved
\* kind, and a detector returns, at any offset, either Undetected with
\* position 0 or a kind that is not reserved.
C7_Kinds ==
    /\ \A k \in DOMAIN lexemes :
         lexemes[k].kind \notin ReservedKinds \cup {"Undetected"}
    /\ \A d \in DOMAIN DETECTORS, c \in 0..Len(orig) :
         LET r == Detect(DETECTORS[d], orig, c) IN
         /\ r.kind \notin ReservedKinds
         /\ r.kind = "Undetected" => r.pos = 0

\* A result with a free word in it, next to an unidentified run (so that
\* every detector returned Undetected somewhere).
C7_Witness ==
    /\ pc = "done"
    /\ \E j, k \in DOMAIN lexemes :
         lexemes[j].kind = "IdentifierFreeword" /\ lexemes[k].kind = "Unidentifiable"

\* C8: a detector called at any offset of any text returns, without a
\* panic; at or past the end of the text, or inside a multi-byte character,
\* it returns Undetected.
C8_NoPanic ==
    probe.called =>
        /\ probe.result.kind \notin {"Panic", "Hang"}
        /\ (probe.chr >= Len(orig) \/ ~IsCharBoundary(orig, probe.chr))
               => probe.result = UNDETECTED

\* detect_character was called inside a multi-byte character that follows a
\* single quote, in a text that ends before the closing quote.
C8_Witness ==
    /\ probe.called
    /\ probe.detector = "detect_character"
    /\ ~IsCharBoundary(orig, probe.chr)
    /\ GetAot(orig, 0) = Ch["'"]
    /\ detect_character(orig, 0) = UNDETECTED

\* C9, as the claim states it: lexemize of the concatenation of all the
\* snippets of a result gives the (kind, start) pairs of that result.
C9_Original ==
    (again.called /\ again.all) =>
        KindStarts(again.result.lexemes) = KindStarts(lexemes)

\* C9, amended: lexemize of the concatenation of the snippets of a result,
\* the sentinel's left out, ends normally and gives the (kind, start) pairs
\* of that result.
C9_Idempotence ==
    (again.called /\ ~again.all) =>
        /\ again.result.pc = "done"
        /\ KindStarts(again.result.lexemes) = KindStarts(lexemes)

\* A second call on the snippets of a result of several kinds.
C9_Witness ==
    /\ again.called
    /\ ~again.all
    /\ Cardinality({ lexemes[k].kind : k \in DOMAIN lexemes }) >= 3

ZeroB12 == S(<<"0", "b", "1", "2">>)

\* C10, as the claim states it: lexemize of 0b12 yields Unidentifiable `0b`
\* at 0, NumberDecimal `12` at 2 and the sentinel at 4.
C10_Original ==
    (pc = "done" /\ orig = ZeroB12) =>
        lexemes = << Lexeme("Unidentifiable", 0, S(<<"0", "b">>)),
                     Lexeme("NumberDecimal", 2, S(<<"1", "2">>)),
                     Lexeme("WhitespaceTrimmable", 4, EOI) >>

\* C10, amended: lexemize of 0b12 yields Unidentifiable `0` at 0,
\* IdentifierFreeword `b12` at 1 and the sentinel at 4.
C10_ZeroB12 ==
    (pc = "done" /\ orig = ZeroB12) =>
        lexemes = << Lexeme("Unidentifiable", 0, S(<<"0">>)),
                     Lexeme("IdentifierFreeword", 1, S(<<"b", "1", "2">>)),
                     Lexeme("WhitespaceTrimmable", 4, EOI) >>

C10_Witness == pc = "done" /\ orig = ZeroB12

\* C15, as the claim states it: detect_string returns Undetected at offset 0
\* of r##"\z\"# and the result of lexemize begins with an Unidentifiable
\* Lexeme at offset 0 that contains the r.
C15_Original ==
    (pc = "done" /\ orig = Seed15) =>
        /\ detect_string(orig, 0) = UNDETECTED
        /\ lexemes[1].kind = "Unidentifiable"
        /\ lexemes[1].chr = 0
        /\ Len(lexemes[1].snippet) >= 1

\* C15, amended: detect_string returns Undetected at offset 0 of r##"\z\"#
\* and the result of lexemize begins with the IdentifierFreeword `r` at
\* offset 0, which detect_identifier matches.
C15_RawShort ==
    (pc = "done" /\ orig = Seed15) =>
        /\ detect_string(orig, 0) = UNDETECTED
        /\ lexemes[1] = Lexeme("IdentifierFreeword", 0, S(<<"r">>))
        /\ detect_identifier(orig, 0) = Result("IdentifierFreeword", 1)

C15_Witness == pc = "done" /\ orig = Seed15 /\ Len(lexemes) = 8

(***************************************************************************)
(* One detector called directly, at any offset of a text of a given set.   *)
(***************************************************************************)
InitOn(texts) ==
    /\ orig \in texts
    /\ chr = 0
    /\ unident_chr = 0
    /\ lexemes = <<>>
    /\ pc = "loop"
    /\ again = NoCall
    /\ probe = NoCall

Call(d) ==
    /\ probe = NoCall
    /\ \E c \in 0..Len(orig) :
         probe' = [called |-> TRUE, detector |-> d, chr |-> c,
                   result |-> Detect(d, orig, c)]
    /\ UNCHANGED <<orig, chr, unident_chr, lexemes, pc, again>>

\* The text of orig from the probed offset on.
Rest == Slice(orig, probe.chr, Len(orig))

\* Whether text t starts with text p.
StartsWith(t, p) == Len(t) >= Len(p) /\ SubSeq(t, 1, Len(p)) = p

(***************************************************************************)
(* detect_number on literals with a base prefix: 0b, 0o or 0x and then up  *)
(* to MaxRun characters.                                                   *)
(***************************************************************************)
MaxRun == 4

AlphabetBase ==
    { S(<<"1">>), S(<<"2">>), S(<<"8">>), S(<<"a">>), S(<<"g">>),
      S(<<"_">>), S(<<".">>) }

BaseTexts ==
    { S(<<"0", p>>) \o t : p \in {"b", "o", "x"}, t \in Texts(AlphabetBase, MaxRun) }

CallNumberBase == Call("detect_number")

SpecNumberBase == InitOn(BaseTexts) /\ [][CallNumberBase]_vars

\* The end of the run of digit-shaped characters (0-9) and underscores that
\* starts at offset i of text t.
RECURSIVE DigitRunEnd(_, _)
DigitRunEnd(t, i) ==
    IF i < Len(t) /\ (IsDigit(t[i + 1]) \/ t[i + 1] = Ch["_"])
    THEN DigitRunEnd(t, i + 1)
    ELSE i

\* Whether the digit run after the two-byte prefix of text t has a digit
\* above top.
RunHasDigitAbove(t, top) ==
    \E k \in 2..(DigitRunEnd(t, 2) - 1) : IsDigit(t[k + 1]) /\ t[k + 1] > top

\* C11, as the claim states it: after 0b a digit 2-9, and after 0o a digit
\* 8-9, anywhere in the digit run makes detect_number return Undetected.
C11_Original ==
    (probe.called /\ probe.detector = "detect_number") =>
        /\ (StartsWith(Rest, S(<<"0", "b">>)) /\ RunHasDigitAbove(Rest, Ch["1"]))
               => probe.result = UNDETECTED
        /\ (StartsWith(Rest, S(<<"0", "o">>)) /\ RunHasDigitAbove(Rest, Ch["7"]))
               => probe.result = UNDETECTED

(***************************************************************************)
(* detect_comment on comments: // and then up to MaxInline characters, or  *)
(* /* and then up to MaxNest characters.                                   *)
(***************************************************************************)
MaxInline == 4
MaxNest == 6

AlphabetInline == { S(<<"\n">>), S(<<"\r">>), S(<<"a">>), S(<<"/">>), Euro }
AlphabetNest == { S(<<"/">>), S(<<"*">>), S(<<"a">>), Euro }

CommentTexts ==
    { S(<<"/", "/">>) \o t : t \in Texts(AlphabetInline, MaxInline) }
    \cup { S(<<"/", "*">>) \o t : t \in Texts(AlphabetNest, MaxNest) }

CallComment == Call("detect_comment")

SpecComment == InitOn(CommentTexts) /\ [][CallComment]_vars

\* The offset of the first newline of text t at or after offset i, or the
\* length of t when there is none.
RECURSIVE FirstNewline(_, _)
FirstNewline(t, i) ==
    IF i >= Len(t) THEN Len(t)
    ELSE IF t[i + 1] = Ch["\n"] THEN i
    ELSE FirstNewline(t, i + 1)

\* C12, as the claim states it: detect_comment at a // returns CommentInline
\* ending at the first newline after the //, the newline excluded, or at
\* the end of the input when no newline follows, wherever the newline is.
C12_Original ==
    (probe.called /\ StartsWith(Rest, S(<<"/", "/">>))) =>
        probe.result = Result("CommentInline", FirstNewline(orig, probe.chr + 2))

\* The reference matcher of nested comments, on text t that starts with /*:
\* from offset i at the given depth, the offset just past the */ met at
\* depth 0, or -1 when t ends first.  /* and */ are consumed as units.
RECURSIVE NestedEnd(_, _, _)
NestedEnd(t, i, depth) ==
    IF i >= Len(t) THEN -1
    ELSE IF i + 1 < Len(t) /\ t[i + 1] = Ch["*"] /\ t[i + 2] = Ch["/"]
         THEN IF depth = 0 THEN i + 2 ELSE NestedEnd(t, i + 2, depth - 1)
    ELSE IF i + 1 < Len(t) /\ t[i + 1] = Ch["/"] /\ t[i + 2] = Ch["*"]
         THEN NestedEnd(t, i + 2, depth + 1)
    ELSE NestedEnd(t, i + 1, depth)

\* C13: detect_comment at a /* agrees with the reference matcher: it returns
\* CommentMultiline ending just past the */ met at depth 0, Undetected when
\* the input ends first at any depth, and its depth counter is never
\* negative.
C13_Nested ==
    (probe.called /\ StartsWith(Rest, S(<<"/", "*">>))) =>
        /\ probe.result =
               IF NestedEnd(Rest, 2, 0) < 0 THEN UNDETECTED
               ELSE Result("CommentMultiline", probe.chr + NestedEnd(Rest, 2, 0))
        /\ \A d \in MultilineDepths(orig, probe.chr + 2, 0) : d >= 0

\* detect_comment matched, up to the end of the text, a comment that holds
\* an inner comment.
C13_Witness ==
    /\ probe.called
    /\ probe.chr = 0
    /\ probe.result.kind = "CommentMultiline"
    /\ 1 \in MultilineDepths(orig, 2, 0)
    /\ probe.result.pos = Len(orig)
    /\ Len(orig) >= 8

(***************************************************************************)
(* detect_string on strings: r or " and then up to MaxStr characters, and  *)
(* the longer inputs of the detector's tests.                              *)
(***************************************************************************)
MaxStr == 5

AlphabetString ==
    { S(<<"\"">>), S(<<"\\">>), S(<<"#">>), S(<<"a">>), Euro }

StringExamples ==
    { S(<<"a", "b", "c", "r", "#", "#", "#", "\"", "o", "k", "\"", "#", "#",
          "#", "x", "y", "z">>),                                \* string.rs:191
      S(<<"a", "b", "c", "r", "#", "#", "#", "\"", "o", "k", "\"", "#", "#",
          "#", "#", "x", "y", "z">>),                           \* string.rs:192
      S(<<"r", "\"", "\\", "z", "\\", "\"", "\"">>),            \* string.rs:253
      S(<<"r", "#", "\"", "\\", "z", "\\", "\"", "\"", "#">>),  \* string.rs:263
      Seed13,                                                   \* string.rs:264
      S(<<"r", "#", "\"", "\\", "z", "\\">>) \o Euro \o
          S(<<"\\", "\"", "\"", "#">>),                         \* string.rs:308
      S(<<"\"", "\\", "z", "\\">>) \o Euro \o S(<<"\"">>) }     \* string.rs:283

StringTexts ==
    { S(<<p>>) \o t : p \in {"r", "\""}, t \in Texts(AlphabetString, MaxStr) }
    \cup StringExamples

CallString == Call("detect_string")

SpecString == InitOn(StringTexts) /\ [][CallString]_vars

\* The number of bytes of the UTF-8 character whose first byte is b.
CharWidth(b) == IF b >= 240 THEN 4 ELSE IF b >= 224 THEN 3 ELSE IF b >= 192 THEN 2 ELSE 1

\* The offset of the first double quote of text t, at or after offset i,
\* that no backslash skips, or -1: a backslash skips the one character
\* after it, whatever it is.
RECURSIVE UnskippedQuote(_, _)
UnskippedQuote(t, i) ==
    IF i >= Len(t) THEN -1
    ELSE IF t[i + 1] = Ch["\\"]
         THEN IF i + 1 >= Len(t) THEN -1
              ELSE UnskippedQuote(t, i + 1 + CharWidth(t[i + 2]))
    ELSE IF t[i + 1] = Ch["\""] THEN i
    ELSE UnskippedQuote(t, i + CharWidth(t[i + 1]))

\* The number of # of text t from offset i on.
RECURSIVE HashesAt(_, _)
HashesAt(t, i) ==
    IF i < Len(t) /\ t[i + 1] = Ch["#"] THEN 1 + HashesAt(t, i + 1) ELSE 0

\* Where the raw string that text t starts with ends, or -1: r, n hashes, a
\* double quote, the body up to its first unskipped double quote, n hashes.
RawEnd(t) ==
    LET n == HashesAt(t, 1)
        q == UnskippedQuote(t, n + 2)
    IN IF ~(n + 1 < Len(t) /\ t[n + 2] = Ch["\""]) THEN -1
       ELSE IF q < 0 THEN -1
       ELSE IF HashesAt(t, q + 1) >= n THEN q + 1 + n
       ELSE -1

C16_Plain ==
    (probe.called /\ StartsWith(Rest, S(<<"\"">>))) =>
        probe.result =
            IF UnskippedQuote(Rest, 1) < 0 THEN UNDETECTED
            ELSE Result("StringPlain", probe.chr + UnskippedQuote(Rest, 1) + 1)

\* A plain string was matched in which backslashes skip a double quote and
\* a three-byte character.
C16_Witness ==
    /\ probe.called
    /\ probe.chr = 0
    /\ probe.result.kind = "StringPlain"
    /\ \E j, k \in 2..(probe.result.pos - 2) :
         /\ orig[j] = Ch["\\"] /\ orig[j + 1] = Ch["\""]
         /\ orig[k] = Ch["\\"] /\ orig[k + 1] >= 128

(***************************************************************************)
(* detect_number on decimal literals: a digit and then up to MaxDec        *)
(* characters.                                                             *)
(***************************************************************************)
MaxDec == 4

AlphabetDecimal ==
    { S(<<"1">>), S(<<".">>), S(<<"e">>), S(<<"E">>), S(<<"+">>), S(<<"-">>),
      S(<<"_">>), S(<<"a">>) }

DecimalTexts == { S(<<"8">>) \o t : t \in Texts(AlphabetDecimal, MaxDec) }

CallNumberDecimal == Call("detect_number")

SpecNumberDecimal == InitOn(DecimalTexts) /\ [][CallNumberDecimal]_vars

IsExponentMarker(c) == c = Ch["e"] \/ c = Ch["E"]
IsSign(c) == c = Ch["+"] \/ c = Ch["-"]

\* The offset of the first character of text t, at or after offset i, that
\* cannot extend a decimal number: one that is neither a digit, nor an
\* underscore, nor the first point (before any exponent marker), nor the
\* first exponent marker, nor a sign right after the exponent marker; or
\* the length of t.  dot and e tell whether a point and a marker were
\* passed, after_e whether the character before offset i is the marker.
RECURSIVE DecimalStop(_, _, _, _, _)
DecimalStop(t, i, dot, e, after_e) ==
    IF i >= Len(t) THEN Len(t)
    ELSE LET c == t[i + 1] IN
         IF IsDigit(c) \/ c = Ch["_"] THEN DecimalStop(t, i + 1, dot, e, FALSE)
         ELSE IF c = Ch["."] /\ ~dot /\ ~e THEN DecimalStop(t, i + 1, TRUE, e, FALSE)
         ELSE IF IsExponentMarker(c) /\ ~e THEN DecimalStop(t, i + 1, dot, TRUE, TRUE)
         ELSE IF IsSign(c) /\ after_e THEN DecimalStop(t, i + 1, dot, e, FALSE)
         ELSE i

EndsInExponent(t) ==
    /\ Len(t) >= 1
    /\ \/ IsExponentMarker(t[Len(t)])
       \/ IsSign(t[Len(t)])
       \/ Len(t) >= 2 /\ t[Len(t)] = Ch["_"] /\ IsExponentMarker(t[Len(t) - 1])

\* Whether detect_number scans the text t as a decimal number.
IsDecimalStart(t) ==
    /\ Len(t) >= 1
    /\ IsDigit(t[1])
    /\ ~(Len(t) >= 2 /\ t[1] = Ch["0"] /\ t[2] \in {Ch["b"], Ch["x"], Ch["o"]})

\* C18: the snippet of a decimal literal that detect_number accepts does not
\* end with e, E, +, -, e_ or E_; and when the characters that can extend
\* the number end right after the exponent marker, after a sign that
\* follows it or after an underscore that follows it, the result is
\* Undetected.
C18_NoOpenExponent ==
    probe.called =>
        /\ probe.result.kind = "NumberDecimal"
               => ~EndsInExponent(Slice(orig, probe.chr, probe.result.pos))
        /\ (/\ IsDecimalStart(Rest)
            /\ EndsInExponent(SubSeq(Rest, 1, DecimalStop(Rest, 1, FALSE, FALSE, FALSE))))
               => probe.result = UNDETECTED

\* detect_number rejected a literal that stops at an underscore right after
\* the exponent marker, with another character after it.
C18_Witness ==
    /\ probe.called
    /\ probe.chr = 0
    /\ probe.result = UNDETECTED
    /\ \E k \in 2..(Len(orig) - 2) :
         /\ IsExponentMarker(orig[k])
         /\ orig[k + 1] = Ch["_"]
         /\ DecimalStop(orig, 1, FALSE, FALSE, FALSE) = k + 1

(***************************************************************************)
(* detect_character on character literals: a single quote and then up to   *)
(* MaxChar characters, or '\x and then up to MaxHexTail characters.        *)
(***************************************************************************)
MaxChar == 4
MaxHexTail == 3

AlphabetCharacter ==
    { S(<<"'">>), S(<<"\\">>), S(<<"n">>), S(<<"a">>), S(<<"\"">>), Euro }

AlphabetHexTail ==
    { S(<<"7">>), S(<<"8">>), S(<<"a">>), S(<<"F">>), S(<<"g">>), S(<<"'">>) }

CharacterTexts ==
    { S(<<"'">>) \o t : t \in Texts(AlphabetCharacter, MaxChar) }
    \cup { S(<<"'", "\\", "x">>) \o t : t \in Texts(AlphabetHexTail, MaxHexTail) }

CallCharacter == Call("detect_character")

SpecCharacter == InitOn(CharacterTexts) /\ [][CallCharacter]_vars

\* The characters the claim lists after a backslash: n r t \ 0 " '
PlainEscapes ==
    {Ch["n"], Ch["r"], Ch["t"], Ch["\\"], Ch["0"], Ch["\""], Ch["'"]}

\* Text t starts with ', one character that is neither ' nor a backslash,
\* and '.
IsQuotedChar(t) ==
    /\ Len(t) >= 3
    /\ t[1] = Ch["'"]
    /\ t[2] \notin {Ch["'"], Ch["\\"]}
    /\ Len(t) >= 2 + CharWidth(t[2])
    /\ t[2 + CharWidth(t[2])] = Ch["'"]

\* Text t starts with ', a backslash, one of n r t \ 0 " ', and '.
IsQuotedEscape(t) ==
    /\ Len(t) >= 4
    /\ t[1] = Ch["'"]
    /\ t[2] = Ch["\\"]
    /\ t[3] \in PlainEscapes
    /\ t[4] = Ch["'"]

\* C19: detect_character returns CharacterPlain exactly for a quoted
\* character that is neither ' nor a backslash, ending just past the closing
\* quote, and for a quoted backslash with one of n r t \ 0 " ', ending at
\* offset + 4; an empty '', a quote whose next character is not followed by
\* a quote, and a backslash with any letter but those, x and u are
\* Undetected.
C19_Plain ==
    probe.called =>
        /\ probe.result.kind = "CharacterPlain"
               <=> (IsQuotedChar(Rest) \/ IsQuotedEscape(Rest))
        /\ IsQuotedChar(Rest)
               => probe.result.pos = probe.chr + 2 + CharWidth(Rest[2])
        /\ IsQuotedEscape(Rest) => probe.result.pos = probe.chr + 4
        /\ (/\ StartsWith(Rest, S(<<"'">>))
            /\ ~IsQuotedChar(Rest)
            /\ ~IsQuotedEscape(Rest)
            /\ ~StartsWith(Rest, S(<<"'", "\\", "x">>))
            /\ ~StartsWith(Rest, S(<<"'", "\\", "u">>)))
               => probe.result = UNDETECTED

\* detect_character matched a quoted three-byte character.
C19_Witness ==
    /\ probe.called
    /\ probe.chr = 0
    /\ probe.result = Result("CharacterPlain", 5)
    /\ HasMultiByte(orig)

\* Text t starts with '\x, a digit from 0 to 7, a hex digit, and '.
IsQuotedHex(t) ==
    /\ Len(t) >= 6
    /\ SubSeq(t, 1, 3) = S(<<"'", "\\", "x">>)
    /\ t[4] \in Ch["0"]..Ch["7"]
    /\ t[5] \in (Ch["0"]..Ch["9"]) \cup (Ch["A"]..Ch["F"]) \cup (Ch["a"]..Ch["f"])
    /\ t[6] = Ch["'"]

\* C20: detect_character returns CharacterHex, ending at offset + 6, exactly
\* when the text at the offset is '\x, a digit from 0 to 7, a hex digit and
\* a closing quote; any other text that starts with '\x is Undetected.
C20_Hex ==
    probe.called =>
        /\ probe.result.kind = "CharacterHex" <=> IsQuotedHex(Rest)
        /\ IsQuotedHex(Rest) => probe.result.pos = probe.chr + 6
        /\ (StartsWith(Rest, S(<<"'", "\\", "x">>)) /\ ~IsQuotedHex(Rest))
               => probe.result = UNDETECTED

\* detect_character matched '\x7F'.
C20_Witness ==
    /\ probe.called
    /\ probe.chr = 0
    /\ probe.result = Result("CharacterHex", 6)
    /\ orig[5] = Ch["F"]

(***************************************************************************)
(* detect_character on unicode escapes: '\u{ and then up to MaxDigits      *)
(* digits and one of a few endings, and the inputs of the detector's       *)
(* tests.                                                                  *)
(***************************************************************************)
MaxDigits == 7

AlphabetCodepoint == { S(<<"0">>), S(<<"1">>), S(<<"f">>) }

UnicodeEndings ==
    { S(<<"}", "'">>), S(<<"}", "'", "a">>), S(<<"}">>), S(<<"'">>),
      S(<<"g", "}", "'">>), S(<<"}", "a">>) }

UnicodeExamples ==
    { S(<<"'", "\\", "u", "{", "1", "0", "0", "a", "b", "C", "}", "'">>),  \* character.rs:195
      S(<<" ", "-", " ", "'", "\\", "u", "{", "1", "0", "F", "F", "F", "F",
          "}", "'">>),                                                     \* character.rs:196
      S(<<"'", "\\", "u", "{", "1", "2", "3", "}", "'">>) \o Euro,        \* character.rs:197
      S(<<"'", "\\", "u", "x", "y", "z">>),                                \* character.rs:221
      S(<<"'", "\\", "u", "[", "0", "]", "'">>),                           \* character.rs:227
      S(<<"'", "\\", "u", "{", "1", "2", "i", "4", "}", "'">>),            \* character.rs:229
      S(<<"'", "\\", "u", "{", "1", "0", "0", "a", "b", "C", "d", "}",
          "'">>),                                                          \* character.rs:230
      S(<<"'", "\\", "u", "{", "1", "1", "0", "0", "0", "0", "}", "'">>) } \* character.rs:233

UnicodeTexts ==
    { S(<<"'", "\\", "u", "{">>) \o d \o e :
          d \in Texts(AlphabetCodepoint, MaxDigits), e \in UnicodeEndings }
    \cup UnicodeExamples

CallUnicode == Call("detect_character")

SpecUnicode == InitOn(UnicodeTexts) /\ [][CallUnicode]_vars

HexDigits == (Ch["0"]..Ch["9"]) \cup (Ch["A"]..Ch["F"]) \cup (Ch["a"]..Ch["f"])

\* The number of hex digits of text t from offset i on.
RECURSIVE HexRun(_, _)
HexRun(t, i) ==
    IF i < Len(t) /\ t[i + 1] \in HexDigits THEN 1 + HexRun(t, i + 1) ELSE 0

\* The number that the n hex digits of text t from offset i on denote, read
\* from the left, acc being the number read so far.
RECURSIVE HexNumber(_, _, _, _)
HexNumber(t, i, n, acc) ==
    IF n = 0 THEN acc
    ELSE LET c == t[i + 1]
             v == IF c \in Ch["0"]..Ch["9"] THEN c - 48
                  ELSE IF c \in Ch["A"]..Ch["F"] THEN c - 55
                  ELSE c - 87
         IN HexNumber(t, i + 1, n - 1, acc * 16 + v)

\* Text t starts with '\u{, 1 to 6 hex digits of a value of at most
\* 0x10FFFF, } and '.
IsQuotedUnicode(t) ==
    /\ StartsWith(t, S(<<"'", "\\", "u", "{">>))
    /\ LET n == HexRun(t, 4) IN
         /\ n \in 1..6
         /\ Len(t) >= n + 6
         /\ t[n + 5] = Ch["}"]
         /\ t[n + 6] = Ch["'"]
         /\ HexNumber(t, 4, n, 0) <= 1114111

\* C21: detect_character returns CharacterUnicode exactly when the text at
\* the offset is '\u{, 1 to 6 hex digits whose value is at most 0x10FFFF, }
\* and a closing quote; it then ends just past the closing quote.  Any other
\* text that starts with '\u (no digit, seven digits or more, a character
\* that is no hex digit inside the braces, a missing } or ', a value above
\* 0x10FFFF) is Undetected.
C21_Unicode ==
    probe.called =>
        /\ probe.result.kind = "CharacterUnicode" <=> IsQuotedUnicode(Rest)
        /\ IsQuotedUnicode(Rest)
               => probe.result.pos = probe.chr + HexRun(Rest, 4) + 6
        /\ (StartsWith(Rest, S(<<"'", "\\", "u">>)) /\ ~IsQuotedUnicode(Rest))
               => probe.result = UNDETECTED

\* detect_character matched a unicode escape of six digits, lower than
\* another of six digits that it rejects.
C21_Witness ==
    /\ probe.called
    /\ probe.chr = 0
    /\ probe.result = Result("CharacterUnicode", 12)
    /\ HexNumber(orig, 4, 6, 0) > 65536 * 16

(***************************************************************************)
(* detect_identifier on words: up to MaxWord characters, and the inputs of *)
(* the detector's tests.                                                   *)
(***************************************************************************)
MaxWord == 4

\* The letter U+00E9, of two bytes.
Eacute == <<195, 169>>

AlphabetWord ==
    { S(<<"a">>), S(<<"Z">>), S(<<"_">>), S(<<"1">>), S(<<" ">>), Eacute }

WordExamples ==
    { S(<<"_", " ", "2", "X", " ", "_">>),              \* identifier.rs:282
      S(<<"a", "b", "c", "d">>) \o Euro \o S(<<"f", "g">>) }  \* identifier.rs:303

WordTexts == Texts(AlphabetWord, MaxWord) \cup WordExamples

CallIdentifier == Call("detect_identifier")

SpecIdentifier == InitOn(WordTexts) /\ [][CallIdentifier]_vars

\* Whether the character at offset i of text t is a letter: an ASCII letter
\* or, if wide, a letter of more than one byte (here U+00E9).
IsLetterAt(t, i, wide) ==
    /\ i < Len(t)
    /\ \/ t[i + 1] \in (Ch["A"]..Ch["Z"]) \cup (Ch["a"]..Ch["z"])
       \/ wide /\ i + 1 < Len(t) /\ <<t[i + 1], t[i + 2]>> = Eacute

\* Whether the character at offset i of text t is `_`, a letter or an ASCII
\* digit.
ContinuesAt(t, i, wide) ==
    /\ i < Len(t)
    /\ \/ t[i + 1] = Ch["_"]
       \/ t[i + 1] \in Ch["0"]..Ch["9"]
       \/ IsLetterAt(t, i, wide)

\* The offset of the first character of text t, at or after offset i, that
\* is not `_`, a letter or a digit, or the length of t.
RECURSIVE WordEnd(_, _, _)
WordEnd(t, i, wide) ==
    IF ContinuesAt(t, i, wide) THEN WordEnd(t, i + CharWidth(t[i + 1]), wide)
    ELSE i

\* Whether an identifier starts text t: a letter, or `_` and one more
\* character that is `_`, a letter or a digit.
StartsWord(t, wide) ==
    \/ IsLetterAt(t, 0, wide)
    \/ Len(t) >= 1 /\ t[1] = Ch["_"] /\ ContinuesAt(t, 1, wide)

\* What the claim says of detect_identifier, for a reading of `letter`.
IdentifierRule(wide) ==
    probe.called =>
        /\ probe.result.kind # "Undetected" <=> StartsWord(Rest, wide)
        /\ StartsWord(Rest, wide)
               => probe.result.pos = probe.chr + WordEnd(Rest, 0, wide)
        /\ probe.result.kind
               \in {"Undetected", "IdentifierFreeword", "IdentifierKeyword",
                    "IdentifierStdType"}

\* C22, as the claim states it: detect_identifier matches exactly when the
\* character at the offset is alphabetic, or is `_` followed by `_`, an
\* alphabetic character or a digit, and the match ends just before the first
\* following character that is not `_`, alphabetic or a digit.
C22_Original == IdentifierRule(TRUE)

\* C22, amended: detect_identifier matches exactly when the character at the
\* offset is an ASCII letter, or is `_` followed by `_`, an ASCII letter or an
\* ASCII digit; the match ends just before the first following character
\* that is not `_`, an ASCII letter or an ASCII digit, or at the end of the
\* input.  A letter of more than one byte neither starts nor continues an
\* identifier, a lone `_` is never an identifier and a digit never starts
\* one.
C22_Identifier ==
    /\ IdentifierRule(FALSE)
    /\ (probe.called /\ Rest \in {S(<<"_">>), S(<<"_", " ">>)})
           => probe.result = UNDETECTED
    /\ (probe.called /\ Len(Rest) >= 1 /\ IsDigit(Rest[1]))
           => probe.result = UNDETECTED

\* detect_identifier matched a word that starts with `_`, holds a digit and
\* ends before a letter of two bytes.
C22_Witness ==
    /\ probe.called
    /\ probe.chr = 0
    /\ probe.result = Result("IdentifierFreeword", 2)
    /\ orig = S(<<"_", "1">>) \o Eacute

(***************************************************************************)
(* detect_identifier on the words of its tables: each keyword and each     *)
(* primitive type name, as it is and with its first letter in upper case,  *)
(* between two texts of up to MaxAffix characters.                         *)
(***************************************************************************)
MaxAffix == 1

AlphabetAffix == { S(<<"s">>), S(<<"_">>), S(<<" ">>) }

\* The entries of a table, as a set.
Entries(table) == { table[k] : k \in DOMAIN table }

\* A word with its first letter in upper case.
Capital(w) ==
    IF w[1] \in Ch["a"]..Ch["z"] THEN [w EXCEPT ![1] = @ - 32] ELSE w

TableTexts ==
    { p \o w \o q :
          w \in Entries(KEYWORDS) \cup Entries(PRIMATIVE_TYPES),
          p \in Texts(AlphabetAffix, MaxAffix),
          q \in Texts(AlphabetAffix, MaxAffix) }
    \cup { Capital(w) : w \in Entries(KEYWORDS) \cup Entries(PRIMATIVE_TYPES) }

CallCategorize == Call("detect_identifier")

SpecCategorize == InitOn(TableTexts) /\ [][CallCategorize]_vars

\* The slice that the probed detector matched.
Matched == Slice(orig, probe.chr, probe.result.pos)

\* The kind of an identifier match is decided by equality of the whole
\* matched slice with a table entry, a slice of one character is a Freeword,
\* and no word is in both tables.
ExactLookup ==
    /\ (probe.called /\ probe.result.kind # "Undetected") =>
           /\ probe.result.kind = "IdentifierKeyword"
                  <=> Matched \in Entries(KEYWORDS)
           /\ probe.result.kind = "IdentifierStdType"
                  <=> Matched \in Entries(PRIMATIVE_TYPES)
           /\ probe.result.kind = "IdentifierFreeword"
                  <=> Matched \notin Entries(KEYWORDS) \cup Entries(PRIMATIVE_TYPES)
           /\ Len(Matched) = 1 => probe.result.kind = "IdentifierFreeword"
    /\ Entries(KEYWORDS) \cap Entries(PRIMATIVE_TYPES) = {}

\* C23, as the claim states it: the lookup is exact, and there are 52
\* keywords and 18 primitive type names.
C23_Original ==
    /\ ExactLookup
    /\ Cardinality(Entries(KEYWORDS)) = 52
    /\ Cardinality(Entries(PRIMATIVE_TYPES)) = 18

\* C23, amended: the kind of an identifier match is decided only by exact,
\* case-sensitive equality of the whole matched slice with a table entry:
\* IdentifierKeyword iff the slice is one of the 52 keywords,
\* IdentifierStdType iff it is one of the 17 primitive type names (the table
\* has 18 entries and lists str twice), IdentifierFreeword otherwise; a slice
\* that merely starts with or contains a keyword and every one-character
\* identifier is a Freeword, and no slice belongs to both tables.
C23_Lookup ==
    /\ ExactLookup
    /\ Len(KEYWORDS) = 52 /\ Cardinality(Entries(KEYWORDS)) = 52
    /\ Len(PRIMATIVE_TYPES) = 18 /\ Cardinality(Entries(PRIMATIVE_TYPES)) = 17

\* detect_identifier found a Freeword that starts with a keyword, in a text
\* in which it finds that keyword at another offset.
C23_Witness ==
    /\ probe.called
    /\ probe.chr = 0
    /\ probe.result.kind = "IdentifierFreeword"
    /\ orig = S(<<"s", "l", "e", "t", "s">>)
    /\ detect_identifier(orig, 1).kind = "IdentifierFreeword"
    /\ detect_identifier(S(<<"l", "e", "t">>), 0).kind = "IdentifierKeyword"

(***************************************************************************)
(* detect_punctuation on marks: up to MaxMarks characters, each entry of   *)
(* the three tables, and each printable ASCII character.                   *)
(***************************************************************************)
MaxMarks == 4

AlphabetMarks ==
    { S(<<".">>), S(<<"=">>), S(<<"<">>), S(<<">">>), S(<<"-">>), S(<<"a">>),
      Euro }

MarkTexts ==
    Texts(AlphabetMarks, MaxMarks)
    \cup Entries(PUNCTUATION_1) \cup Entries(PUNCTUATION_2)
    \cup Entries(PUNCTUATION_3)
    \cup { <<c>> : c \in 32..126 }

CallPunctuation == Call("detect_punctuation")

SpecPunctuation == InitOn(MarkTexts) /\ [][CallPunctuation]_vars

\* The lengths of the entries of the three tables that text t starts with.
MarkLengths(t) ==
    { Len(e) : e \in { e \in Entries(PUNCTUATION_1) \cup Entries(PUNCTUATION_2)
                              \cup Entries(PUNCTUATION_3) : StartsWith(t, e) } }

\* The largest of a non-empty set of numbers.
Max(set) == CHOOSE x \in set : \A y \in set : y <= x

\* C24: detect_punctuation returns Undetected iff the character at the
\* offset is not one of the 28 one-character marks, and otherwise returns
\* Punctuation ending at the offset plus the length, 1, 2 or 3, of the
\* longest entry of the three tables that the text at the offset starts
\* with; every 3-character entry extends a 2-character entry whose first
\* character is a 1-character entry.
C24_MaximalMunch ==
    /\ probe.called =>
           /\ probe.result = UNDETECTED
                  <=> ~\E e \in Entries(PUNCTUATION_1) : StartsWith(Rest, e)
           /\ MarkLengths(Rest) # {} =>
                  /\ probe.result =
                         Result("Punctuation", probe.chr + Max(MarkLengths(Rest)))
                  /\ probe.result.pos - probe.chr \in 1..3
    /\ Cardinality(Entries(PUNCTUATION_1)) = 28
    /\ \A e \in Entries(PUNCTUATION_1) : Len(e) = 1
    /\ \A e \in Entries(PUNCTUATION_2) : Len(e) = 2
    /\ \A e \in Entries(PUNCTUATION_3) :
           /\ Len(e) = 3
           /\ SubSeq(e, 1, 2) \in Entries(PUNCTUATION_2)
           /\ SubSeq(e, 1, 1) \in Entries(PUNCTUATION_1)

\* detect_punctuation matched a mark of three characters and left a
\* character that would extend a mark for the next call.
C24_Witness ==
    /\ probe.called
    /\ probe.chr = 0
    /\ probe.result = Result("Punctuation", 3)
    /\ orig = S(<<"<", "<", "=", "=">>)

(***************************************************************************)
(* detect_whitespace on runs: up to MaxWhite characters, each whitespace   *)
(* character alone, and the inputs of the detector's tests.                *)
(***************************************************************************)
MaxWhite == 4

\* U+00A0 No-Break Space, which is no Pattern_White_Space.
NoBreakSpace == <<194, 160>>

LineSeparator == <<226, 128, 168>>

AlphabetWhite ==
    { S(<<" ">>), <<11>>, NextLine, LineSeparator, NoBreakSpace, S(<<"~">>),
      S(<<"a">>) }

WhiteExamples ==
    { <<0, 9, 10, 11, 12, 13, 32>> \o NextLine,                \* whitespace.rs:105
      NoBreakSpace \o <<226, 128, 142>> \o <<226, 128, 143>>
          \o LineSeparator \o <<226, 128, 169>>,               \* whitespace.rs:108
      S(<<"x", "y", "z", "~", " ", "\n">>) }                   \* whitespace.rs:113

WhiteTexts ==
    Texts(AlphabetWhite, MaxWhite)
    \cup { <<c>> : c \in AsciiWhitespace } \cup NonAsciiWhitespace
    \cup WhiteExamples

CallWhitespace == Call("detect_whitespace")

SpecWhitespace == InitOn(WhiteTexts) /\ [][CallWhitespace]_vars

\* The number of bytes of the whitespace character at offset i of text t:
\* space, tab, CR, LF, U+000B, U+000C, U+0085, U+200E, U+200F, U+2028 or
\* U+2029; 0 if the character there is none of them.
WhiteWidth(t, i) ==
    IF i >= Len(t) THEN 0
    ELSE IF t[i + 1] \in {32, 9, 13, 10, 11, 12} THEN 1
    ELSE IF i + 1 < Len(t) /\ t[i + 1] = 194 /\ t[i + 2] = 133 THEN 2
    ELSE IF /\ i + 2 < Len(t)
            /\ t[i + 1] = 226
            /\ t[i + 2] = 128
            /\ t[i + 3] \in {142, 143, 168, 169}
         THEN 3
    ELSE 0

\* The end of the longest run of whitespace characters of text t that
\* starts at offset i.
RECURSIVE WhiteRunEnd(_, _)
WhiteRunEnd(t, i) ==
    IF WhiteWidth(t, i) = 0 THEN i ELSE WhiteRunEnd(t, i + WhiteWidth(t, i))

\* C25: detect_whitespace at an offset in range and on a character boundary
\* returns WhitespaceTrimmable ending just past the longest run of
\* whitespace characters that starts at the offset; it returns Undetected
\* iff the first character is no whitespace character, or the offset is out
\* of range or not on a boundary.  The character right after a match is no
\* whitespace character.
C25_WhitespaceRun ==
    probe.called =>
        /\ probe.result = UNDETECTED
               <=> \/ probe.chr >= Len(orig)
                   \/ ~IsCharBoundary(orig, probe.chr)
                   \/ WhiteWidth(orig, probe.chr) = 0
        /\ probe.result # UNDETECTED =>
               /\ probe.result =
                      Result("WhitespaceTrimmable", WhiteRunEnd(orig, probe.chr))
               /\ WhiteWidth(orig, probe.result.pos) = 0

\* detect_whitespace matched a run of a one-byte, a two-byte and a
\* three-byte whitespace character that ends before a No-Break Space.
C25_Witness ==
    /\ probe.called
    /\ probe.chr = 0
    /\ probe.result = Result("WhitespaceTrimmable", 6)
    /\ Slice(orig, 6, Len(orig)) = NoBreakSpace
    /\ \E i, j \in 0..5 : WhiteWidth(orig, i) = 2 /\ WhiteWidth(orig, j) = 3

(***************************************************************************)
(* detect_number on literals with a base prefix that stop: 0b, 0o or 0x,   *)
(* up to MaxStopRun digits and underscores, then a character that ends the *)
(* scan, or nothing, and then a digit or nothing.                          *)
(***************************************************************************)
MaxStopRun == 3

AlphabetStopRun == { S(<<"1">>), S(<<"7">>), S(<<"a">>), S(<<"_">>) }

Stoppers == { <<>>, S(<<"g">>), S(<<" ">>), S(<<"~">>), Euro }

StopTexts ==
    { S(<<"0", p>>) \o t \o s \o u :
          p \in {"b", "o", "x"}, t \in Texts(AlphabetStopRun, MaxStopRun),
          s \in Stoppers, u \in { <<>>, S(<<"1">>) } }

CallNumberStop == Call("detect_number")

SpecNumberStop == InitOn(StopTexts) /\ [][CallNumberStop]_vars

\* The digits of the base that the prefix 0b, 0o or 0x selects.
DigitsOfBase(p) ==
    IF p = Ch["b"] THEN {Ch["0"], Ch["1"]}
    ELSE IF p = Ch["o"] THEN Ch["0"]..Ch["7"]
    ELSE HexDigits

\* The kind of the base that the prefix selects.
KindOfBase(p) ==
    IF p = Ch["b"] THEN "NumberBinary"
    ELSE IF p = Ch["o"] THEN "NumberOctal"
    ELSE "NumberHex"

\* Whether character c is related to a literal with prefix p: an
\* underscore, a point, or a character of the shape of a digit, in the
\* range of the base or not.
IsRelated(c, p) == c = Ch["_"] \/ c = Ch["."] \/ IsDigit(c) \/ c \in DigitsOfBase(p)

\* The offset of the first character of text t, at or after offset i, that
\* is neither an underscore nor a digit of the base, or the length of t.
RECURSIVE BaseRunEnd(_, _, _)
BaseRunEnd(t, i, p) ==
    IF i < Len(t) /\ (t[i + 1] = Ch["_"] \/ t[i + 1] \in DigitsOfBase(p))
    THEN BaseRunEnd(t, i + 1, p)
    ELSE i

\* Whether text t starts with 0b, 0o or 0x, and the digits and underscores
\* after it end at the end of t or at an unrelated character.
ReachesUnrelated(t) ==
    /\ Len(t) >= 2
    /\ t[1] = Ch["0"]
    /\ t[2] \in {Ch["b"], Ch["o"], Ch["x"]}
    /\ LET s == BaseRunEnd(t, 2, t[2]) IN
         s = Len(t) \/ ~IsRelated(t[s + 1], t[2])

\* C26: when the scan of a binary, hex or octal literal reaches, over
\* underscores and digits of the base, a character that is unrelated to the
\* literal (no underscore, no point, not of the shape of a digit) or the end
\* of the input, detect_number returns the kind of the base ending at that
\* offset if a digit of the base was passed, and Undetected if none was: an
\* underscore is no digit.
C26_Truncates ==
    (probe.called /\ ReachesUnrelated(Rest)) =>
        LET s == BaseRunEnd(Rest, 2, Rest[2]) IN
        probe.result =
            IF \E k \in 3..s : Rest[k] \in DigitsOfBase(Rest[2])
            THEN Result(KindOfBase(Rest[2]), probe.chr + s)
            ELSE UNDETECTED

\* detect_number cut a hex literal with an underscore before a three-byte
\* character, which a digit follows.
C26_Witness ==
    /\ probe.called
    /\ probe.chr = 0
    /\ probe.result = Result("NumberHex", 4)
    /\ orig = S(<<"0", "x", "_", "a">>) \o Euro \o S(<<"1">>)

(***************************************************************************)
(* detect_number on decimal literals: the exponent.                        *)
(***************************************************************************)
\* C27, as the claim states it: when the characters that can extend a
\* decimal number hold an exponent marker and end at a point, detect_number
\* returns Undetected, whether or not a point occurred before the marker;
\* the literal is never accepted truncated before that point.
C27_Original ==
    (probe.called /\ IsDecimalStart(Rest)) =>
        LET s == DecimalStop(Rest, 1, FALSE, FALSE, FALSE) IN
        (/\ s < Len(Rest)
         /\ Rest[s + 1] = Ch["."]
         /\ \E k \in 2..s : IsExponentMarker(Rest[k]))
            => probe.result = UNDETECTED

\* C28, as the claim states it: a decimal literal that detect_number accepts
\* and that holds an exponent marker has a digit after the marker; a literal
\* whose exponent is but a sign, underscores or both is Undetected.
C28_Original ==
    (probe.called /\ probe.result.kind = "NumberDecimal") =>
        \A k \in 1..Len(Matched) :
            IsExponentMarker(Matched[k])
                => \E j \in (k + 1)..Len(Matched) : IsDigit(Matched[j])

(***************************************************************************)
(* detect_number on the start of a literal: 0 or 1, one of the characters  *)
(* that may select a base or nothing, and up to MaxModeTail characters.    *)
(***************************************************************************)
MaxModeTail == 2

AlphabetModeTail ==
    { S(<<"1">>), S(<<"9">>), S(<<"a">>), S(<<".">>), S(<<"_">>) }

SecondCharacters ==
    { <<>>, S(<<"b">>), S(<<"x">>), S(<<"o">>), S(<<"B">>), S(<<"X">>),
      S(<<"O">>), S(<<"1">>), S(<<"e">>), S(<<".">>), S(<<"_">>), Euro }

ModeTexts ==
    { S(<<d>>) \o s \o t :
          d \in {"0", "1"}, s \in SecondCharacters,
          t \in Texts(AlphabetModeTail, MaxModeTail) }

CallNumberMode == Call("detect_number")

SpecNumberMode == InitOn(ModeTexts) /\ [][CallNumberMode]_vars

\* Whether text t starts with 0b, 0x or 0o, in lower case.
HasBasePrefix(t) ==
    Len(t) >= 2 /\ t[1] = Ch["0"] /\ t[2] \in {Ch["b"], Ch["x"], Ch["o"]}

\* C29: the first two characters fix how detect_number scans.  After 0b, 0x
\* or 0o it returns NumberBinary, NumberHex or NumberOctal respectively, or
\* Undetected, and never a NumberDecimal for the leading 0; after any other
\* digit (one that is not 0, one that ends the input, a 0 before any other
\* character, B, X and O included) it returns NumberDecimal or Undetected.
\* 0b is Undetected and 0B is a NumberDecimal ending at 1.
C29_Mode ==
    (probe.called /\ Len(Rest) >= 1) =>
        /\ ~IsDigit(Rest[1]) => probe.result = UNDETECTED
        /\ (IsDigit(Rest[1]) /\ HasBasePrefix(Rest))
               => probe.result.kind \in {KindOfBase(Rest[2]), "Undetected"}
        /\ (IsDigit(Rest[1]) /\ ~HasBasePrefix(Rest))
               => probe.result.kind \in {"NumberDecimal", "Undetected"}
        /\ (IsDigit(Rest[1]) /\ Len(Rest) = 1)
               => probe.result = Result("NumberDecimal", Len(orig))
        /\ Rest = S(<<"0", "b">>) => probe.result = UNDETECTED
        /\ (StartsWith(Rest, S(<<"0">>)) /\ Len(Rest) >= 2
            /\ Rest[2] \in {Ch["B"], Ch["X"], Ch["O"]})
               => probe.result = Result("NumberDecimal", probe.chr + 1)

\* detect_number took the 0 of 0B1 for a decimal number, where it takes 0b1
\* for a binary one.
C29_Witness ==
    /\ probe.called
    /\ probe.chr = 0
    /\ probe.result = Result("NumberDecimal", 1)
    /\ orig = S(<<"0", "B", "1">>)
    /\ detect_number(S(<<"0", "b", "1">>), 0) = Result("NumberBinary", 3)

=============================================================================
